---- MODULE Spec2Model ----
(***************************************************************************)
(* A model of the batch handlers of the MinIO proxy (package minioserver): *)
(* batchGet, batchPost, batchDelete and uploadImagesToMinioServer.  One    *)
(* request is served at a time; its per-item goroutines interleave freely  *)
(* with the loop that launches them.  Strings the code inspects (keys,     *)
(* paths, field names) are sequences of one-character strings, so that     *)
(* Split, TrimSpace, HasSuffix, Contains and path.Join are computed.       *)
(* SpecServer serves one request of the single-object routes, the health   *)
(* routes and debugList through apiKeyMiddleware, corsMiddleware,          *)
(* logMiddleware and the mux.  SpecLive adds fairness to the batch         *)
(* handlers: every goroutine that can run does, every store call returns.  *)
(* float64 values of resizeToFit are an exponent and a 53-bit significand. *)
(***************************************************************************)
EXTENDS Integers, Sequences, FiniteSets, Bags, TLC

VARIABLES
    req,           \* the request being served (method, form, query)
    pc,            \* position of the handler: "start", "launch", "done"
    i,             \* index of the launching loop (1-based)
    task,          \* task[idx]: "idle" | "running" | "done", the per-item goroutines
    dtask,         \* the delete goroutines of uploadImagesToMinioServer
    results,       \* the pre-sized result slice
    deleteErrors,  \* uploadImagesToMinioServer: deleteErrors slice
    deletedPaths,  \* uploadImagesToMinioServer: deletedPaths slice
    loopP,         \* uploadImagesToMinioServer: the delete loop's variable p
    wg,            \* sync.WaitGroup counter
    resp,          \* the response written, NoResp before
    nResp,         \* number of responses written
    store,         \* the bucket: a function from the existing keys to their objects
    calls,         \* bag of the store calls issued: [op, idx, key]
    expired,       \* whether the deadline of ctx has passed
    uuid           \* number of uuid.New() calls made so far

vars == <<req, pc, i, task, dtask, results, deleteErrors, deletedPaths, loopP,
          wg, resp, nResp, store, calls, expired, uuid>>

----------------------------------------------------------------------------
(* Bounds of the model *)

MaxParamLen == 4
MaxFiles == 2

----------------------------------------------------------------------------
(* Strings *)

\* strings.TrimSpace, on the left
RECURSIVE TrimLeft(_)
TrimLeft(s) ==
    IF s # <<>> /\ Head(s) = " " THEN TrimLeft(Tail(s)) ELSE s

\* strings.TrimSpace, on the right
RECURSIVE TrimRight(_)
TrimRight(s) ==
    IF s # <<>> /\ s[Len(s)] = " " THEN TrimRight(SubSeq(s, 1, Len(s) - 1)) ELSE s

TrimSpace(s) == TrimRight(TrimLeft(s))

\* index of the first occurrence of character c in s, 0 when there is none
IndexOf(s, c) ==
    IF \E j \in 1..Len(s) : s[j] = c
    THEN CHOOSE j \in 1..Len(s) : s[j] = c /\ \A k \in 1..(j - 1) : s[k] # c
    ELSE 0

\* strings.Split(s, c): always at least one element
RECURSIVE Split(_, _)
Split(s, c) ==
    LET j == IndexOf(s, c) IN
    IF j = 0 THEN <<s>>
    ELSE <<SubSeq(s, 1, j - 1)>> \o Split(SubSeq(s, j + 1, Len(s)), c)

\* for i, k := range keys { keys[i] = strings.TrimSpace(k) }
TrimAll(ss) == [j \in 1..Len(ss) |-> TrimSpace(ss[j])]

----------------------------------------------------------------------------
(* The requests of the /batch route *)

KeyChars == {"a", " ", ","}

\* the values of the keys parameter: every string over KeyChars up to MaxParamLen
Params == UNION {[1..n -> KeyChars] : n \in 0..MaxParamLen}

\* the j-th uploaded file of a batch upload: its part header and its bytes
BatchFile(j) ==
    [Filename |-> <<"f">>,
     ctype |-> IF j % 2 = 0 THEN "image/png" ELSE "",
     data |-> <<"file", j>>]

FileList(n) == [j \in 1..n |-> BatchFile(j)]

\* r.MultipartForm.File of a batch upload with n files under "files" and m under "file"
FileMap(n, m) ==
    [f \in ({"files"} \cap (IF n > 0 THEN {"files"} ELSE {}))
           \cup ({"file"} \cap (IF m > 0 THEN {"file"} ELSE {}))
        |-> IF f = "files" THEN FileList(n) ELSE FileList(m)]

\* r.MultipartForm.File[name]: nil (length 0) for a field the form does not carry
FormFile(r, name) == IF name \in DOMAIN r.File THEN r.File[name] ELSE <<>>

BatchRequests ==
    {[route |-> "batch", method |-> m, keysParam |-> p, isMultipart |-> FALSE,
      parseOK |-> FALSE, File |-> FileMap(0, 0)] :
        m \in {"GET", "DELETE"}, p \in Params}
    \cup {[route |-> "batch", method |-> "PUT", keysParam |-> <<>>,
           isMultipart |-> FALSE, parseOK |-> FALSE, File |-> FileMap(0, 0)]}
    \cup {[route |-> "batch", method |-> "POST", keysParam |-> <<>>,
           isMultipart |-> mp, parseOK |-> FALSE, File |-> FileMap(0, 0)] :
             mp \in BOOLEAN}
    \cup {[route |-> "batch", method |-> "POST", keysParam |-> p,
           isMultipart |-> TRUE, parseOK |-> TRUE, File |-> FileMap(n, m)] :
             p \in Params, n \in 0..MaxFiles, m \in 0..1}

----------------------------------------------------------------------------
(* The store (the MinIO bucket) and the outcomes of its calls *)

Nil == "nil"
ErrNotFound == "The specified key does not exist."
ErrDenied == "Access Denied."
ErrDeadline == "context deadline exceeded"
ErrOpen == "open: file closed"
ErrRead == "read: unexpected EOF"

KeyA == <<"a">>
KeyOld == <<"k", "z", "e", "n", "/", "f", "/", "a", ".", "j", "p", "g">>

\* the buckets a request may find: empty, or holding the objects "a" and
\* "kzen/f/a.jpg"
InitStores ==
    {[k \in {} |-> 0],
     [k \in {KeyA, KeyOld} |->
        [data |-> <<"stored", k>>, ct |-> IF k = KeyA THEN "image/png" ELSE ""]]}

Exists(k) == k \in DOMAIN store

\* the store after a successful PutObject
Put(st, k, obj) ==
    [x \in DOMAIN st \cup {k} |-> IF x = k THEN obj ELSE st[x]]

\* the store after a successful RemoveObject
Remove(st, k) == [x \in DOMAIN st \ {k} |-> st[x]]

\* one more call in the bag of calls, with the error it returned
Called(cs, op, idx, k, err) ==
    cs (+) SetToBag({[op |-> op, idx |-> idx, key |-> k, err |-> err]})

\* client.GetObject / obj.Stat / io.ReadAll of one batchGet task: the stage that
\* fails and its error, or stage "ok".  Past the deadline every call fails.
FetchOutcomes(k) ==
    IF expired
    THEN {[stage |-> s, err |-> ErrDeadline] : s \in {"get", "stat", "read"}}
    ELSE {[stage |-> s, err |-> ErrDenied] : s \in {"get", "stat", "read"}}
         \cup (IF Exists(k)
               THEN {[stage |-> "ok", err |-> Nil]}
               ELSE {[stage |-> s, err |-> ErrNotFound] : s \in {"get", "stat"}})

\* client.PutObject: nil or an error
PutOutcomes == IF expired THEN {ErrDeadline} ELSE {Nil, ErrDenied}

\* client.RemoveObject: nil or an error; an absent key is removed without error
\* or reported as not existing
RemoveOutcomes(k) ==
    IF expired THEN {ErrDeadline}
    ELSE {Nil, ErrDenied} \cup (IF Exists(k) THEN {} ELSE {ErrNotFound})

----------------------------------------------------------------------------
(* Writing the response *)

NoResp == [status |-> 0, body |-> "none"]

\* http.Error, respondJSON, or the first Write of a handler: one response
Respond(status, body) ==
    /\ resp' = [status |-> status, body |-> body]
    /\ nResp' = nResp + 1
    /\ pc' = "done"

\* keys := strings.Split(keysParam, ","), each trimmed
KeysOf(r) == TrimAll(Split(r.keysParam, ","))

\* files := r.MultipartForm.File["files"], or File["file"] when that is empty
BatchFilesOf(r) ==
    IF Len(FormFile(r, "files")) = 0 THEN FormFile(r, "file") ELSE FormFile(r, "files")

Idle(n) == [j \in 1..n |-> "idle"]

\* what a handler leaves alone before it launches anything
NothingLaunched ==
    UNCHANGED <<req, i, task, dtask, results, deleteErrors, deletedPaths, loopP,
                wg, store, calls, expired, uuid>>

\* what the launching loop of a batch handler leaves alone
LaunchFrame ==
    UNCHANGED <<req, dtask, results, deleteErrors, deletedPaths, loopP,
                resp, nResp, store, calls, expired, uuid>>

\* what a task of a batch handler leaves alone
TaskFrame ==
    UNCHANGED <<req, pc, i, dtask, deleteErrors, deletedPaths, loopP,
                resp, nResp, expired, uuid>>

\* what the final assembly of a response leaves alone
RespondFrame ==
    UNCHANGED <<req, i, task, dtask, results, deleteErrors, deletedPaths, loopP,
                wg, store, calls, expired, uuid>>

----------------------------------------------------------------------------
(* batchHandler: any method other than GET, POST, DELETE *)

BatchMethodNotAllowed ==
    /\ pc = "start" /\ req.route = "batch"
    /\ req.method \notin {"GET", "POST", "DELETE"}
    /\ Respond(405, "method not allowed")
    /\ NothingLaunched

----------------------------------------------------------------------------
(* batchGet *)

\* the zero value of batchGet's result struct
ZeroGetResult == [key |-> <<>>, data |-> <<>>, ct |-> "", err |-> Nil]

\* validation, then results := make([]result, len(keys)).  The len(keys) == 0
\* test of the code cannot succeed: strings.Split returns at least one element.
BatchGetStart ==
    /\ pc = "start" /\ req.route = "batch" /\ req.method = "GET"
    /\ \/ /\ req.keysParam = <<>>
          /\ Respond(400, "keys query required")
          /\ NothingLaunched
       \/ /\ req.keysParam # <<>>
          /\ results' = [j \in 1..Len(KeysOf(req)) |-> ZeroGetResult]
          /\ task' = Idle(Len(KeysOf(req)))
          /\ pc' = "launch"
          /\ i' = 1
          /\ UNCHANGED <<req, dtask, deleteErrors, deletedPaths, loopP, wg, resp,
                         nResp, store, calls, expired, uuid>>

\* one iteration of the launching loop: a blank key is skipped
BatchGetLaunch ==
    /\ pc = "launch" /\ req.route = "batch" /\ req.method = "GET"
    /\ i <= Len(KeysOf(req))
    /\ \/ /\ KeysOf(req)[i] = <<>>
          /\ UNCHANGED <<wg, task>>
       \/ /\ KeysOf(req)[i] # <<>>
          /\ wg' = wg + 1
          /\ task' = [task EXCEPT ![i] = "running"]
    /\ i' = i + 1
    /\ pc' = pc
    /\ LaunchFrame

\* the result a batchGet task records for the outcome o of its calls
GetResult(objKey, o) ==
    IF o.stage = "ok"
    THEN [key |-> objKey, data |-> store[objKey].data,
          ct |-> IF store[objKey].ct = "" THEN "application/octet-stream"
                 ELSE store[objKey].ct,
          err |-> Nil]
    ELSE [key |-> objKey, data |-> <<>>, ct |-> "", err |-> o.err]

\* a slot chosen by order of completion, as an append on completion would
SlotByCompletion(idx) == Cardinality({j \in DOMAIN task : task[j] = "done"}) + 1

\* the slot a task writes: its own index
SlotOf(idx) == idx

\* the calls of a task that repeats a refused call once
FetchCallsRetried(cs, idx, objKey, o) ==
    IF o.stage = "get"
    THEN IF o.err = ErrDenied
         THEN Called(Called(cs, "get", idx, objKey, o.err), "get", idx, objKey, o.err)
         ELSE Called(cs, "get", idx, objKey, o.err)
    ELSE IF o.stage = "stat"
    THEN IF o.err = ErrDenied
         THEN Called(Called(Called(cs, "get", idx, objKey, Nil),
                            "stat", idx, objKey, o.err), "stat", idx, objKey, o.err)
         ELSE Called(Called(cs, "get", idx, objKey, Nil), "stat", idx, objKey, o.err)
    ELSE Called(Called(Called(cs, "get", idx, objKey, Nil), "stat", idx, objKey, Nil),
                "read", idx, objKey, o.err)

\* the calls one batchGet task issues up to the stage its outcome names
FetchCalls(cs, idx, objKey, o) ==
    IF o.stage = "get" THEN Called(cs, "get", idx, objKey, o.err)
    ELSE IF o.stage = "stat"
    THEN Called(Called(cs, "get", idx, objKey, Nil), "stat", idx, objKey, o.err)
    ELSE Called(Called(Called(cs, "get", idx, objKey, Nil), "stat", idx, objKey, Nil),
                "read", idx, objKey, o.err)

\* the goroutine of item idx, launched with (idx, objKey)
BatchGetTask(idx) ==
    /\ req.route = "batch" /\ req.method = "GET"
    /\ task[idx] = "running"
    /\ \E o \in FetchOutcomes(KeysOf(req)[idx]) :
          /\ results' = [results EXCEPT ![SlotOf(idx)] = GetResult(KeysOf(req)[idx], o)]
          /\ calls' = FetchCalls(calls, idx, KeysOf(req)[idx], o)
    /\ task' = [task EXCEPT ![idx] = "done"]
    /\ wg' = wg - 1
    /\ UNCHANGED store
    /\ TaskFrame

\* the multipart body: one part per result whose err is nil
RECURSIVE PartsOf(_)
PartsOf(rs) ==
    IF rs = <<>> THEN <<>>
    ELSE IF Head(rs).err # Nil THEN PartsOf(Tail(rs))
    ELSE <<[name |-> Head(rs).key, filename |-> Head(rs).key,
            ct |-> Head(rs).ct, data |-> Head(rs).data]>> \o PartsOf(Tail(rs))

\* a join that returns as soon as one task has completed
JoinedAfterFirst ==
    wg = 0 \/ \E j \in DOMAIN task : task[j] = "done"

\* a join that does not return once the deadline has passed
JoinedBeforeDeadline == wg = 0 /\ ~expired

\* wg.Wait() returns when the counter is zero
Joined == wg = 0

\* a response that gives up on the whole batch once the deadline has passed
BatchGetRespondTimeout ==
    /\ pc = "launch" /\ req.route = "batch" /\ req.method = "GET"
    /\ i > Len(KeysOf(req))
    /\ Joined
    /\ IF expired THEN Respond(504, "batch timed out")
       ELSE Respond(200, PartsOf(results))
    /\ RespondFrame

\* wg.Wait(), then the multipart response
BatchGetRespond ==
    /\ pc = "launch" /\ req.route = "batch" /\ req.method = "GET"
    /\ i > Len(KeysOf(req))
    /\ Joined
    /\ Respond(200, PartsOf(results))
    /\ RespondFrame

----------------------------------------------------------------------------
(* batchPost *)

\* the zero value of uploadResult and of delResult
ZeroSummary == [Key |-> <<>>, OK |-> FALSE, Err |-> ""]

\* a count test that only rejects too few files
EnoughFiles(r) == Len(BatchFilesOf(r)) >= Len(KeysOf(r))

\* len(files) == len(keyList)
CountsMatch(r) == Len(BatchFilesOf(r)) = Len(KeysOf(r))

BatchPostStart ==
    /\ pc = "start" /\ req.route = "batch" /\ req.method = "POST"
    /\ \/ /\ ~req.isMultipart
          /\ Respond(400, "multipart form required")
          /\ NothingLaunched
       \/ /\ req.isMultipart /\ ~req.parseOK
          /\ Respond(400, "invalid multipart form")
          /\ NothingLaunched
       \/ /\ req.isMultipart /\ req.parseOK
          /\ req.keysParam = <<>>
          /\ Respond(400, "keys form field required")
          /\ NothingLaunched
       \/ /\ req.isMultipart /\ req.parseOK
          /\ req.keysParam # <<>>
          /\ ~CountsMatch(req)
          /\ Respond(400, "keys count must match files count")
          /\ NothingLaunched
       \/ /\ req.isMultipart /\ req.parseOK
          /\ req.keysParam # <<>>
          /\ CountsMatch(req)
          /\ results' = [j \in 1..Len(KeysOf(req)) |-> ZeroSummary]
          /\ task' = Idle(Len(KeysOf(req)))
          /\ pc' = "launch"
          /\ i' = 1
          /\ UNCHANGED <<req, dtask, deleteErrors, deletedPaths, loopP, wg, resp,
                         nResp, store, calls, expired, uuid>>

\* one iteration of the launching loop: every index gets a goroutine
BatchPostLaunch ==
    /\ pc = "launch" /\ req.route = "batch" /\ req.method = "POST"
    /\ i <= Len(KeysOf(req))
    /\ wg' = wg + 1
    /\ task' = [task EXCEPT ![i] = "running"]
    /\ i' = i + 1
    /\ pc' = pc
    /\ LaunchFrame

\* contentType := file.Header.Get("Content-Type"), defaulted
PartContentType(file) ==
    IF file.ctype = "" THEN "application/octet-stream" ELSE file.ctype

\* a summary entry that drops the error text
SummaryWithoutText(objKey, err) == [Key |-> objKey, OK |-> err = Nil, Err |-> ""]

\* the summary entry of an item whose operation ended with err
SummaryOf(objKey, err) ==
    IF err = Nil THEN [Key |-> objKey, OK |-> TRUE, Err |-> ""]
    ELSE [Key |-> objKey, OK |-> FALSE, Err |-> err]

\* the goroutine of item idx: file.Open(), then client.PutObject
BatchPostTask(idx) ==
    /\ req.route = "batch" /\ req.method = "POST"
    /\ task[idx] = "running"
    /\ \/ /\ results' = [results EXCEPT ![SlotOf(idx)] = SummaryOf(KeysOf(req)[idx], ErrOpen)]
          /\ UNCHANGED <<store, calls>>
       \/ \E err \in PutOutcomes :
            /\ results' = [results EXCEPT ![SlotOf(idx)] = SummaryOf(KeysOf(req)[idx], err)]
            /\ calls' = Called(calls, "put", idx, KeysOf(req)[idx], err)
            /\ store' = IF err = Nil
                        THEN Put(store, KeysOf(req)[idx],
                                 [data |-> BatchFilesOf(req)[idx].data,
                                  ct |-> PartContentType(BatchFilesOf(req)[idx])])
                        ELSE store
    /\ task' = [task EXCEPT ![idx] = "done"]
    /\ wg' = wg - 1
    /\ TaskFrame

\* wg.Wait(), then {"uploaded": results} with the implicit status 200
BatchPostRespond ==
    /\ pc = "launch" /\ req.route = "batch" /\ req.method = "POST"
    /\ i > Len(KeysOf(req))
    /\ Joined
    /\ Respond(200, results)
    /\ RespondFrame

----------------------------------------------------------------------------
(* batchDelete *)

\* validation, then results := make([]delResult, len(keys)).  As in batchGet the
\* len(keys) == 0 test cannot succeed.
BatchDeleteStart ==
    /\ pc = "start" /\ req.route = "batch" /\ req.method = "DELETE"
    /\ \/ /\ req.keysParam = <<>>
          /\ Respond(400, "keys query required")
          /\ NothingLaunched
       \/ /\ req.keysParam # <<>>
          /\ results' = [j \in 1..Len(KeysOf(req)) |-> ZeroSummary]
          /\ task' = Idle(Len(KeysOf(req)))
          /\ pc' = "launch"
          /\ i' = 1
          /\ UNCHANGED <<req, dtask, deleteErrors, deletedPaths, loopP, wg, resp,
                         nResp, store, calls, expired, uuid>>

\* one iteration of the launching loop: a blank key is skipped
BatchDeleteLaunch ==
    /\ pc = "launch" /\ req.route = "batch" /\ req.method = "DELETE"
    /\ i <= Len(KeysOf(req))
    /\ \/ /\ KeysOf(req)[i] = <<>>
          /\ UNCHANGED <<wg, task>>
       \/ /\ KeysOf(req)[i] # <<>>
          /\ wg' = wg + 1
          /\ task' = [task EXCEPT ![i] = "running"]
    /\ i' = i + 1
    /\ pc' = pc
    /\ LaunchFrame

\* the goroutine of item idx: client.RemoveObject
BatchDeleteTask(idx) ==
    /\ req.route = "batch" /\ req.method = "DELETE"
    /\ task[idx] = "running"
    /\ \E err \in RemoveOutcomes(KeysOf(req)[idx]) :
          /\ results' = [results EXCEPT ![SlotOf(idx)] = SummaryOf(KeysOf(req)[idx], err)]
          /\ calls' = Called(calls, "remove", idx, KeysOf(req)[idx], err)
          /\ store' = IF err = Nil THEN Remove(store, KeysOf(req)[idx]) ELSE store
    /\ task' = [task EXCEPT ![idx] = "done"]
    /\ wg' = wg - 1
    /\ TaskFrame

\* wg.Wait(), then {"deleted": results} with the implicit status 200
BatchDeleteRespond ==
    /\ pc = "launch" /\ req.route = "batch" /\ req.method = "DELETE"
    /\ i > Len(KeysOf(req))
    /\ Joined
    /\ Respond(200, results)
    /\ RespondFrame

----------------------------------------------------------------------------
(* More of the string library, as upload-images uses it *)

Upper == <<"A", "B", "C", "D", "E", "F", "G", "H", "I", "J", "K", "L", "M",
           "N", "O", "P", "Q", "R", "S", "T", "U", "V", "W", "X", "Y", "Z">>
Lower == <<"a", "b", "c", "d", "e", "f", "g", "h", "i", "j", "k", "l", "m",
           "n", "o", "p", "q", "r", "s", "t", "u", "v", "w", "x", "y", "z">>

LowerChar(c) ==
    IF \E j \in 1..Len(Upper) : Upper[j] = c
    THEN Lower[CHOOSE j \in 1..Len(Upper) : Upper[j] = c]
    ELSE c

\* strings.ToLower
ToLower(s) == [j \in 1..Len(s) |-> LowerChar(s[j])]

\* strings.HasSuffix
HasSuffix(s, suf) ==
    Len(s) >= Len(suf) /\ SubSeq(s, Len(s) - Len(suf) + 1, Len(s)) = suf

\* strings.Contains(s, c) for a one-character c
Contains(s, c) == IndexOf(s, c) # 0

\* index of the last occurrence of character c in s, 0 when there is none
LastIndexOf(s, c) ==
    IF \E j \in 1..Len(s) : s[j] = c
    THEN CHOOSE j \in 1..Len(s) : s[j] = c /\ \A k \in (j + 1)..Len(s) : s[k] # c
    ELSE 0

\* path.Ext: from the last dot of the last element, empty when it has none
Ext(s) ==
    LET d == LastIndexOf(s, ".") IN
    IF d = 0 \/ d < LastIndexOf(s, "/") THEN <<>> ELSE SubSeq(s, d, Len(s))

\* the elements joined by "/"
RECURSIVE JoinSlash(_)
JoinSlash(segs) ==
    IF segs = <<>> THEN <<>>
    ELSE IF Len(segs) = 1 THEN segs[1]
    ELSE segs[1] \o <<"/">> \o JoinSlash(Tail(segs))

\* path.Clean on the elements of a path: "" and "." vanish, ".." removes the
\* element before it (or is kept at the front of a relative path)
RECURSIVE CleanSegs(_, _, _)
CleanSegs(segs, acc, rooted) ==
    IF segs = <<>> THEN acc
    ELSE LET s == Head(segs) IN
         IF s = <<>> \/ s = <<".">> THEN CleanSegs(Tail(segs), acc, rooted)
         ELSE IF s = <<".", ".">>
         THEN IF acc # <<>> /\ acc[Len(acc)] # <<".", ".">>
              THEN CleanSegs(Tail(segs), SubSeq(acc, 1, Len(acc) - 1), rooted)
              ELSE IF rooted THEN CleanSegs(Tail(segs), acc, rooted)
              ELSE CleanSegs(Tail(segs), Append(acc, s), rooted)
         ELSE CleanSegs(Tail(segs), Append(acc, s), rooted)

\* path.Clean
Clean(p) ==
    LET rooted == p # <<>> /\ p[1] = "/"
        body == JoinSlash(CleanSegs(Split(p, "/"), <<>>, rooted))
        out == IF rooted THEN <<"/">> \o body ELSE body
    IN IF out = <<>> THEN <<".">> ELSE out

\* path.Join(a, b): the non-empty elements joined by "/" and cleaned
PathJoin(a, b) ==
    IF a = <<>> /\ b = <<>> THEN <<>>
    ELSE IF a = <<>> THEN Clean(b)
    ELSE IF b = <<>> THEN Clean(a)
    ELSE Clean(a \o <<"/">> \o b)

\* strings.TrimPrefix(s, "/")
TrimSlashPrefix(s) == IF s # <<>> /\ s[1] = "/" THEN Tail(s) ELSE s

----------------------------------------------------------------------------
(* Names of form fields *)

F_userId == <<"u", "s", "e", "r", "I", "d">>
F_folder == <<"f", "o", "l", "d", "e", "r">>
F_imgPathsToDelete == <<"i", "m", "g", "P", "a", "t", "h", "s", "T", "o", "D", "e", "l", "e", "t", "e">>
F_imgPaths == <<"i", "m", "g", "P", "a", "t", "h", "s">>
F_paths == <<"p", "a", "t", "h", "s">>
F_path == <<"p", "a", "t", "h">>
F_imgPath == <<"i", "m", "g", "P", "a", "t", "h">>
F_ids == <<"i", "d", "s">>
F_id == <<"i", "d">>
F_fileIds == <<"f", "i", "l", "e", "I", "d", "s">>
F_fileId == <<"f", "i", "l", "e", "I", "d">>
F_newSources == <<"n", "e", "w", "S", "o", "u", "r", "c", "e", "s">>
F_attachedFiles == <<"a", "t", "t", "a", "c", "h", "e", "d", "F", "i", "l", "e", "s">>
F_files == <<"f", "i", "l", "e", "s">>
F_file == <<"f", "i", "l", "e">>
F_binary == <<"b", "i", "n", "a", "r", "y">>

\* isKnownFormField
isKnownFormField(key) ==
    key \in {F_userId,
             F_folder,
             F_imgPathsToDelete,
             F_imgPaths,
             F_paths,
             F_path,
             F_imgPath,
             F_ids,
             F_id,
             F_fileIds,
             F_fileId,
             F_newSources,
             F_attachedFiles,
             F_files,
             F_file,
             F_binary}

DotJpg == <<".", "j", "p", "g">>
DotJpeg == <<".", "j", "p", "e", "g">>
DotPng == <<".", "p", "n", "g">>
DotGif == <<".", "g", "i", "f">>
DotSvg == <<".", "s", "v", "g">>
DotWebp == <<".", "w", "e", "b", "p">>
DotBin == <<".", "b", "i", "n">>

\* the test of a form key for a common image extension (after ToLower)
HasImageSuffix(lowerKey) ==
    \E suf \in {DotJpg, DotJpeg, DotPng, DotGif, DotSvg, DotWebp} :
        HasSuffix(lowerKey, suf)

----------------------------------------------------------------------------
(* uploadImagesToMinioServer: the fields of the form *)

\* r.FormValue(key): the first value of the field, "" when there is none
FormValue(r, key) ==
    IF key \in DOMAIN r.Value /\ Len(r.Value[key]) > 0 THEN r.Value[key][1] ELSE <<>>

\* r.MultipartForm.Value[key]: nil for a field the form does not carry
FormValues(r, key) == IF key \in DOMAIN r.Value THEN r.Value[key] ELSE <<>>

HasField(r, key) == key \in DOMAIN r.Value

NonEmpty(ss) == SelectSeq(ss, LAMBDA x : x # <<>>)

userId(r) == TrimSpace(FormValue(r, F_userId))
folder(r) == TrimSpace(FormValue(r, F_folder))
imgPathsToDeleteStr(r) == TrimSpace(FormValue(r, F_imgPathsToDelete))
imgPathsStr(r) == TrimSpace(FormValue(r, F_imgPaths))
idsStr(r) == TrimSpace(FormValue(r, F_ids))

\* the trimmed, non-empty entries of imgPathsToDelete
imgPathsToDelete(r) ==
    IF imgPathsToDeleteStr(r) = <<>> THEN <<>>
    ELSE NonEmpty(TrimAll(Split(imgPathsToDeleteStr(r), ",")))

\* filename -> target path, from the value fields that are no known field and
\* end in a common image extension
pathByFilename(r) ==
    [key \in {k \in DOMAIN r.Value :
                 /\ Len(r.Value[k]) > 0
                 /\ ~isKnownFormField(k)
                 /\ HasImageSuffix(ToLower(k))}
        |-> TrimSpace(r.Value[key][1])]

\* A JSON field is carried parsed: whether json.Unmarshal accepts it, and the
\* {id, path} objects of its list.
JsonPresent(r, key) == key \in DOMAIN r.Json

\* a reading that uses whatever json.Unmarshal filled in, error or not
JsonFilled(r, key) == JsonPresent(r, key)

JsonParses(r, key) == JsonPresent(r, key) /\ r.Json[key].parses

\* the entries of a JSON list with id and path trimmed
JsonEntries(r, key) ==
    [j \in 1..Len(r.Json[key].entries) |->
        [id |-> TrimSpace(r.Json[key].entries[j].id),
         path |-> TrimSpace(r.Json[key].entries[j].path)]]

\* the entries that carry both an id and a path
FullEntries(es) == SelectSeq(es, LAMBDA e : e.id # <<>> /\ e.path # <<>>)

\* the map the loop builds from the entries: a later entry overwrites an earlier
MapOfEntries(es) ==
    [id \in {es[j].id : j \in 1..Len(es)} |->
        es[CHOOSE j \in 1..Len(es) :
              es[j].id = id /\ \A k \in (j + 1)..Len(es) : es[k].id # id].path]

NilMap == [nil |-> TRUE, map |-> <<>>]

\* pathById after the newSources block
pathByIdNew(r) ==
    IF JsonParses(r, F_newSources)
    THEN [nil |-> FALSE, map |-> MapOfEntries(FullEntries(JsonEntries(r, F_newSources)))]
    ELSE NilMap

\* orderedIds: the ids of newSources, in order
orderedIds(r) ==
    IF JsonParses(r, F_newSources)
    THEN [j \in 1..Len(FullEntries(JsonEntries(r, F_newSources))) |->
             FullEntries(JsonEntries(r, F_newSources))[j].id]
    ELSE <<>>

\* whether the attachedFiles block is entered and its JSON accepted
AttachedUsed(r) ==
    /\ DOMAIN pathByIdNew(r).map = {}
    /\ JsonParses(r, F_attachedFiles)

\* pathById after the attachedFiles block
pathById(r) ==
    IF AttachedUsed(r)
    THEN [nil |-> FALSE, map |-> MapOfEntries(FullEntries(JsonEntries(r, F_attachedFiles)))]
    ELSE pathByIdNew(r)

\* idById: the same ids, each mapped to itself
idById(r) ==
    [nil |-> pathById(r).nil, map |-> [id \in DOMAIN pathById(r).map |-> id]]

\* imgPaths after the two JSON blocks
imgPathsJson(r) ==
    (IF JsonParses(r, F_newSources)
     THEN [j \in 1..Len(FullEntries(JsonEntries(r, F_newSources))) |->
              FullEntries(JsonEntries(r, F_newSources))[j].path]
     ELSE <<>>)
    \o (IF AttachedUsed(r)
        THEN LET noId == SelectSeq(JsonEntries(r, F_attachedFiles),
                                   LAMBDA e : e.id = <<>> /\ e.path # <<>>)
             IN [j \in 1..Len(noId) |-> noId[j].path]
        ELSE <<>>)

\* imgPaths: the first source of the cascade that yields an entry
imgPaths(r) ==
    IF Len(imgPathsJson(r)) # 0 THEN imgPathsJson(r)
    ELSE IF imgPathsStr(r) # <<>> THEN TrimAll(Split(imgPathsStr(r), ","))
    ELSE IF TrimSpace(FormValue(r, F_paths)) # <<>>
            /\ Len(NonEmpty(TrimAll(Split(TrimSpace(FormValue(r, F_paths)), ",")))) # 0
    THEN NonEmpty(TrimAll(Split(TrimSpace(FormValue(r, F_paths)), ",")))
    ELSE IF HasField(r, F_path) /\ Len(NonEmpty(TrimAll(FormValues(r, F_path)))) # 0
    THEN NonEmpty(TrimAll(FormValues(r, F_path)))
    ELSE IF TrimSpace(FormValue(r, F_path)) # <<>>
    THEN <<TrimSpace(FormValue(r, F_path))>>
    ELSE IF HasField(r, F_imgPath) THEN FormValues(r, F_imgPath)
    ELSE IF TrimSpace(FormValue(r, F_imgPath)) # <<>>
    THEN <<TrimSpace(FormValue(r, F_imgPath))>>
    ELSE <<>>

\* ids: the ids list, or the id fields
ids(r) ==
    IF idsStr(r) # <<>> THEN TrimAll(Split(idsStr(r), ","))
    ELSE IF HasField(r, F_id) THEN FormValues(r, F_id)
    ELSE IF TrimSpace(FormValue(r, F_id)) # <<>> THEN <<TrimSpace(FormValue(r, F_id))>>
    ELSE <<>>

\* fileHeaders: the parts of "files", else of "file", else of "binary"
fileHeaders(r) ==
    IF Len(FormFile(r, "files")) # 0 THEN FormFile(r, "files")
    ELSE IF Len(FormFile(r, "file")) # 0 THEN FormFile(r, "file")
    ELSE FormFile(r, "binary")

\* fileIds: the fileIds list, else the fileId fields, else orderedIds
fileIdsGiven(r) ==
    IF TrimSpace(FormValue(r, F_fileIds)) # <<>>
    THEN NonEmpty(TrimAll(Split(TrimSpace(FormValue(r, F_fileIds)), ",")))
    ELSE IF HasField(r, F_fileId) THEN FormValues(r, F_fileId)
    ELSE <<>>

fileIds(r) ==
    IF Len(fileIdsGiven(r)) = 0 /\ Len(orderedIds(r)) > 0 THEN orderedIds(r)
    ELSE fileIdsGiven(r)

----------------------------------------------------------------------------
(* uploadImagesToMinioServer: the resolution of part n (1-based) *)

\* first priority: the filename map
PathFromFilename(r, n) ==
    IF fileHeaders(r)[n].Filename \in DOMAIN pathByFilename(r)
    THEN pathByFilename(r)[fileHeaders(r)[n].Filename]
    ELSE <<>>

\* whether the second priority is tried: it sets fileId
TriesFileId(r, n) ==
    PathFromFilename(r, n) = <<>> /\ n <= Len(fileIds(r)) /\ ~pathById(r).nil

\* fileId: set only when the second priority is tried
fileIdOf(r, n) == IF TriesFileId(r, n) THEN fileIds(r)[n] ELSE <<>>

\* a second priority that never consults the identifier map
PathWithoutFileId(r, n) == PathFromFilename(r, n)

\* second priority: the path of the part's file id
PathFromFileId(r, n) ==
    IF TriesFileId(r, n) /\ fileIds(r)[n] \in DOMAIN pathById(r).map
    THEN pathById(r).map[fileIds(r)[n]]
    ELSE PathFromFilename(r, n)

\* a resolution that takes the index-matched path before the maps
ResolvedByIndexFirst(r, n) ==
    IF n <= Len(imgPaths(r)) THEN imgPaths(r)[n] ELSE PathFromFileId(r, n)

\* imgPath as handed to the goroutine: "" when nothing matched
ResolvedImgPath(r, n) ==
    IF PathFromFileId(r, n) = <<>> /\ n <= Len(imgPaths(r))
    THEN imgPaths(r)[n]
    ELSE PathFromFileId(r, n)

\* id from idById, when fileId is set and mapped
IdFromMap(r, n) ==
    IF fileIdOf(r, n) # <<>> /\ ~idById(r).nil /\ fileIdOf(r, n) \in DOMAIN idById(r).map
    THEN idById(r).map[fileIdOf(r, n)]
    ELSE <<>>

\* id as handed to the goroutine
ResolvedId(r, n) ==
    IF IdFromMap(r, n) = <<>> /\ n <= Len(ids(r)) THEN ids(r)[n] ELSE IdFromMap(r, n)

----------------------------------------------------------------------------
(* The image pipeline *)

MaxW == 1920
MaxH == 1080

\* float64: a positive number held as the exponent e of its leading bit and the
\* bits m of its significand, leading bit first
Precision == 53

RECURSIVE BinValue(_)
\* the integer a bit sequence spells
BinValue(bs) ==
    IF Len(bs) = 0 THEN 0
    ELSE IF Len(bs) = 1 THEN bs[1]
    ELSE BinValue(SubSeq(bs, 1, Len(bs) \div 2)) * 2 ^ (Len(bs) - Len(bs) \div 2)
            + BinValue(SubSeq(bs, Len(bs) \div 2 + 1, Len(bs)))

\* the n low bits of an integer
Bits(v, n) == [j \in 1..n |-> (v \div 2 ^ (n - j)) % 2]

RECURSIVE Bin(_)
\* the bits of a non-negative integer, none for 0
Bin(n) == IF n = 0 THEN <<>> ELSE Bin(n \div 2) \o <<n % 2>>

\* a bit sequence that holds a 0, plus one in its last place
Succ(bs) ==
    LET last == CHOOSE j \in 1..Len(bs) :
                    bs[j] = 0 /\ \A k \in (j + 1)..Len(bs) : bs[k] = 1
    IN [j \in 1..Len(bs) |-> IF j < last THEN bs[j] ELSE IF j = last THEN 1 ELSE 0]

\* round to nearest, ties to even: the exact bits bs, whose leading bit has
\* exponent e, cut to Precision bits
Round(bs, e) ==
    LET padded == IF Len(bs) > Precision THEN bs
                  ELSE bs \o [j \in 1..(Precision + 1 - Len(bs)) |-> 0]
        kept == SubSeq(padded, 1, Precision)
        guard == padded[Precision + 1]
        sticky == \E j \in (Precision + 2)..Len(padded) : padded[j] = 1
        up == guard = 1 /\ (sticky \/ kept[Precision] = 1)
    IN IF ~up THEN [e |-> e, m |-> kept]
       ELSE IF \A j \in 1..Precision : kept[j] = 1
       THEN [e |-> e + 1, m |-> <<1>> \o [j \in 1..(Precision - 1) |-> 0]]
       ELSE [e |-> e, m |-> Succ(kept)]

RECURSIVE Normalize(_, _, _)
\* num/den * 2^e with 1 <= num/den < 2
Normalize(num, den, e) ==
    IF num < den THEN Normalize(2 * num, den, e - 1)
    ELSE IF num >= 2 * den THEN Normalize(num, 2 * den, e + 1)
    ELSE [num |-> num, den |-> den, e |-> e]

RECURSIVE Pow2Mod(_, _)
\* 2^j modulo den
Pow2Mod(j, den) ==
    IF j = 0 THEN 1 % den
    ELSE LET h == Pow2Mod(j \div 2, den)
         IN (((h * h) % den) * (IF j % 2 = 1 THEN 2 ELSE 1)) % den

\* what is left of rem/den after j bits of long division: rem * 2^j modulo den
RemainderAfter(rem, den, j) == (rem * Pow2Mod(j, den)) % den

\* the first n bits of rem/den, rem < den
QuotientBits(rem, den, n) ==
    [j \in 1..n |-> IF 2 * RemainderAfter(rem, den, j - 1) >= den THEN 1 ELSE 0]

\* float64(a) / float64(b) for integers a, b >= 1: Precision + 1 bits of the
\* quotient and one bit that says whether a remainder is left, rounded
Float64Quo(a, b) ==
    LET n == Normalize(a, b, 0)
        rem == n.num - n.den
        sticky == IF RemainderAfter(rem, n.den, Precision) # 0 THEN 1 ELSE 0
    IN Round(<<1>> \o QuotientBits(rem, n.den, Precision) \o <<sticky>>, n.e)

\* the significand in three limbs of LimbBits bits
LimbBits == 18

\* the bits of k times the integer bs spells, limb by limb with the carry
LongProduct(bs, k) ==
    LET n == Len(bs)
        p0 == k * BinValue(SubSeq(bs, n - LimbBits + 1, n))
        p1 == k * BinValue(SubSeq(bs, n - 2 * LimbBits + 1, n - LimbBits))
                 + p0 \div 2 ^ LimbBits
        p2 == k * BinValue(SubSeq(bs, 1, n - 2 * LimbBits)) + p1 \div 2 ^ LimbBits
    IN Bin(p2) \o Bits(p1 % 2 ^ LimbBits, LimbBits) \o Bits(p0 % 2 ^ LimbBits, LimbBits)

\* float64(k) * x for an integer k >= 1: the exact product, rounded
Float64Mul(k, x) ==
    LET product == LongProduct(x.m, k)
    IN Round(product, x.e + Len(product) - Precision)

\* x < y
Float64Less(x, y) ==
    \/ x.e < y.e
    \/ /\ x.e = y.e
       /\ \E j \in 1..Precision :
             /\ x.m[j] < y.m[j]
             /\ \A k \in 1..(j - 1) : x.m[k] = y.m[k]

\* int(x): the fraction is dropped
Float64ToInt(x) == IF x.e < 0 THEN 0 ELSE BinValue(SubSeq(x.m, 1, x.e + 1))

\* image.Decode: the image a payload holds, when it holds one.  enc and encScaled
\* say whether jpeg.Encode accepts the image and its scaled copy.
Decode(data) ==
    [w |-> data.w, h |-> data.h, px |-> <<"px", data.id>>,
     enc |-> data.enc, encScaled |-> data.encScaled]

\* resizeToFit: scale by min(maxW/origW, maxH/origH), each side at least 1
resizeToFit(img, maxW, maxH) ==
    IF img.w <= maxW /\ img.h <= maxH THEN img
    ELSE LET scaleW == Float64Quo(maxW, img.w)
             scaleH == Float64Quo(maxH, img.h)
             scale == IF Float64Less(scaleH, scaleW) THEN scaleH ELSE scaleW
             newW == Float64ToInt(Float64Mul(img.w, scale))
             newH == Float64ToInt(Float64Mul(img.h, scale))
         IN [w |-> IF newW < 1 THEN 1 ELSE newW,
             h |-> IF newH < 1 THEN 1 ELSE newH,
             px |-> <<"scaled", img.px>>,
             enc |-> img.encScaled, encScaled |-> img.encScaled]

\* the bytes jpeg.Encode writes for an image at quality 100
Jpeg(img) == <<img.px, img.w, img.h>>

\* the bytes jpeg.Encode has written when it fails
Partial(img) == <<img.px, 0, 0>>

\* jpeg.Encode(&buf, img, ...): what buf holds afterwards, and whether it failed
Encode(buf, img) ==
    IF img.enc THEN [buf |-> buf \o <<Jpeg(img)>>, failed |-> FALSE]
    ELSE [buf |-> buf \o <<Partial(img)>>, failed |-> TRUE]

\* a fallback that keeps what the failed attempt wrote
KeepBuffer(buf) == buf

\* buf.Reset()
Reset(buf) == <<>>

Raw(data) == [bytes |-> data, ct |-> "application/octet-stream"]

\* processRasterImage: (bytes, contentType)
processRasterImage(data) ==
    IF ~data.raster THEN Raw(data)
    ELSE LET img == Decode(data)
             resized == resizeToFit(img, MaxW, MaxH)
             first == Encode(<<>>, resized)
             second == Encode(Reset(first.buf), img)
         IN IF ~first.failed THEN [bytes |-> [jpeg |-> first.buf], ct |-> "image/jpeg"]
            ELSE IF ~second.failed
            THEN [bytes |-> [jpeg |-> second.buf], ct |-> "image/jpeg"]
            ELSE Raw(data)

\* a test of the extension as the filename spells it
IsSvgAsSpelled(fh) ==
    fh.ctype = "image/svg+xml" \/ HasSuffix(fh.Filename, DotSvg)

\* isSvg: by the declared content type or the extension
isSvg(fh) ==
    fh.ctype = "image/svg+xml" \/ HasSuffix(ToLower(fh.Filename), DotSvg)

\* objectData and contentType of a part
PartObject(fh) ==
    IF isSvg(fh) THEN [bytes |-> fh.data, ct |-> "image/svg+xml"]
    ELSE processRasterImage(fh.data)

\* ext of a part, used by the generated file name
PartExt(fh) ==
    IF isSvg(fh) THEN DotSvg
    ELSE IF PartObject(fh).ct = "image/jpeg" THEN DotJpeg
    ELSE IF Ext(fh.Filename) = <<>> THEN DotBin
    ELSE Ext(fh.Filename)

----------------------------------------------------------------------------
(* uploadImagesToMinioServer: keys *)

\* the folderPrefix of the route registered in Run
FolderPrefix == <<"/", "k", "z", "e", "n">>

\* uuid.New().String(): the n-th token drawn
Digits == <<"1", "2", "3", "4", "5", "6", "7", "8", "9">>
UuidString(n) == <<"#", Digits[n]>>

\* a generated file name without the token
GeneratedNameNoToken(r, fh, n) == userId(r) \o <<"_">> \o PartExt(fh)

\* the generated file name: userId_uuid+ext
GeneratedName(r, fh, n) == userId(r) \o <<"_">> \o UuidString(n) \o PartExt(fh)

\* finalImgPath: the resolved path, or the generated name when it is empty
FinalImgPath(r, idx, imgPath, n) ==
    IF imgPath # <<>> THEN imgPath ELSE GeneratedName(r, fileHeaders(r)[idx], n)

\* with folderPrefix set, the key is joined under it
WithPrefix(key) ==
    IF FolderPrefix # <<>> THEN PathJoin(TrimSlashPrefix(FolderPrefix), key) ELSE key

\* objectKey of an upload
UploadKey(r, finalImgPath) == WithPrefix(PathJoin(folder(r), finalImgPath))

\* a delete key that is always joined under the folder
DeleteKeyUnderFolder(r, p) == WithPrefix(PathJoin(folder(r), p))

\* objKey of a delete: a path without "/" is joined under the folder
DeleteKey(r, p) ==
    WithPrefix(IF p # <<>> /\ ~Contains(p, "/") THEN PathJoin(folder(r), p) ELSE p)

----------------------------------------------------------------------------
(* uploadImagesToMinioServer: the requests *)

\* the j-th part of an upload-images request
UploadFile(j) ==
    IF j % 3 = 1
    THEN [Filename |-> <<"a", ".", "j", "p", "g">>, ctype |-> "image/jpeg",
          data |-> [id |-> j, raster |-> TRUE, w |-> 800, h |-> 600,
                    enc |-> TRUE, encScaled |-> TRUE]]
    ELSE IF j % 3 = 2
    THEN [Filename |-> <<"b", ".", "s", "v", "g">>, ctype |-> "image/svg+xml",
          data |-> [id |-> j, raster |-> FALSE, w |-> 0, h |-> 0,
                    enc |-> FALSE, encScaled |-> FALSE]]
    ELSE [Filename |-> <<"c">>, ctype |-> "",
          data |-> [id |-> j, raster |-> FALSE, w |-> 0, h |-> 0,
                    enc |-> FALSE, encScaled |-> FALSE]]

UploadFileList(n) == [j \in 1..n |-> UploadFile(j)]

\* r.MultipartForm.File with n parts under the field named field
UploadFileMap(field, n) ==
    [f \in (IF n > 0 THEN {field} ELSE {}) |-> UploadFileList(n)]

\* the value fields every request carries: userId and folder
Identity(u, f) == (F_userId :> <<u>>) @@ (F_folder :> <<f>>)

NoFields == [k \in {} |-> <<>>]

\* the metadata a request may carry besides the JSON fields
MetaFields ==
    {NoFields,
     <<"a", ".", "j", "p", "g">> :> <<<<"x", "/", "1", ".", "j", "p", "g">>>>,
     (F_imgPaths :> <<<<"p", ".", "j", "p", "g", ",", " ", "q", ".", "s", "v", "g">>>>) @@ (F_ids :> <<<<"7", ",", "8">>>>),
     (F_path :> <<<<"s", ".", "j", "p", "g">>>>) @@ (F_id :> <<<<"9">>>>)}

\* the JSON fields a request may carry
JsonFields ==
    {NoFields,
     F_newSources :> [parses |-> TRUE,
                      entries |-> <<[id |-> <<"n", "1">>, path |-> <<"u", "/", "n", "1", ".", "j", "p", "g">>]>>],
     F_newSources :> [parses |-> FALSE, entries |-> <<>>]}

\* the imgPathsToDelete fields a request may carry
DeleteFields ==
    {NoFields,
     F_imgPathsToDelete :> <<<<"a", ".", "j", "p", "g">>>>,
     F_imgPathsToDelete :> <<<<"a", ".", "j", "p", "g", ",", " ", ",", "u", "/", "b", ".", "j", "p", "g">>>>}

\* the JSON fields of the requests that exercise the identifier map: lists in
\* newSources and attachedFiles, empty lists, and lists json.Unmarshal rejects
\* after it has filled in some entries
SrcN1 == [id |-> <<"n", "1">>, path |-> <<"u", "/", "n", "1", ".", "j", "p", "g">>]
SrcN2 == [id |-> <<"n", "2">>, path |-> <<"u", "/", "n", "2", ".", "j", "p", "g">>]
SrcT1 == [id |-> <<"t", "1">>, path |-> <<"v", "/", "t", "1", ".", "j", "p", "g">>]
SrcT2 == [id |-> <<>>, path |-> <<"v", "/", "t", "2", ".", "j", "p", "g">>]

ResolverJson ==
    {F_newSources :> [parses |-> TRUE, entries |-> <<SrcN1, SrcN2>>],
     (F_newSources :> [parses |-> TRUE, entries |-> <<>>])
        @@ (F_attachedFiles :> [parses |-> TRUE, entries |-> <<SrcT1, SrcT2>>]),
     (F_newSources :> [parses |-> TRUE, entries |-> <<SrcN1>>])
        @@ (F_attachedFiles :> [parses |-> TRUE, entries |-> <<SrcT1, SrcT2>>]),
     F_attachedFiles :> [parses |-> TRUE, entries |-> <<SrcT1, SrcT2>>],
     F_newSources :> [parses |-> FALSE, entries |-> <<SrcN1, SrcN2>>],
     F_attachedFiles :> [parses |-> FALSE, entries |-> <<SrcT1>>],
     (F_newSources :> [parses |-> FALSE, entries |-> <<SrcN1>>])
        @@ (F_attachedFiles :> [parses |-> TRUE, entries |-> <<SrcT1, SrcT2>>])}

\* the value fields of the requests that exercise the identifier map
ResolverMeta ==
    {NoFields,
     F_fileIds :> <<<<"n", "2", ",", "n", "1">>>>,
     (<<"a", ".", "j", "p", "g">> :> <<<<"x", "/", "1", ".", "j", "p", "g">>>>) @@ (F_ids :> <<<<"7", ",", "8">>>>),
     (F_fileIds :> <<<<"t", "1">>>>) @@ (F_imgPaths :> <<<<"p", ".", "j", "p", "g", ",", " ", "q", ".", "s", "v", "g">>>>)}

\* a filename that has no image extension, as the name of a value field
PlainName == <<"c">>

\* the sizes of the images sent: within 1920x1080, beyond it on one side or on
\* both, and sizes whose scaled side is a whole number
ImageWidths == {1, 22, 800, 1920, 1921, 4000}
ImageHeights == {1, 600, 1080, 1081, 1584, 2140, 3000}

\* image payloads: every size, encodable or not, scaled or not
RasterData ==
    [id : {1}, raster : {TRUE}, w : ImageWidths, h : ImageHeights,
     enc : BOOLEAN, encScaled : BOOLEAN]

\* parts that hold an image, and parts named or declared as SVG or as nothing
\* known, holding an image or not
ImageParts ==
    [Filename : {<<"a", ".", "j", "p", "g">>}, ctype : {"image/jpeg"}, data : RasterData]
    \cup [Filename : {<<"B", ".", "S", "V", "G">>, <<"c">>, <<"d", ".", "p", "n", "g">>},
          ctype : {"image/svg+xml", ""},
          data : {UploadFile(3).data,
                  [id |-> 1, raster |-> TRUE, w |-> 4000, h |-> 3000,
                   enc |-> TRUE, encScaled |-> TRUE]}]

UploadRequest(method, parseOK, value, json, file) ==
    [route |-> "uploadImages", method |-> method, parseOK |-> parseOK,
     Value |-> value, Json |-> json, File |-> file]

UploadRequests ==
    {UploadRequest("GET", FALSE, NoFields, NoFields, UploadFileMap("files", 0)),
     UploadRequest("POST", FALSE, NoFields, NoFields, UploadFileMap("files", 0))}
    \cup {UploadRequest("POST", TRUE, Identity(u, f) @@ d, NoFields,
                        UploadFileMap("files", 1)) :
            u \in {<<" ">>, <<"u", "1">>}, f \in {<<>>, <<"f">>},
            d \in DeleteFields}
    \cup {UploadRequest("POST", TRUE, Identity(<<"u", "1">>, <<"f">>) @@ m @@ d,
                        NoFields, UploadFileMap("files", n)) :
            m \in MetaFields, d \in DeleteFields, n \in 0..MaxFiles}
    \cup {UploadRequest("POST", TRUE, Identity(<<"u", "1">>, <<"f">>),
                        j, UploadFileMap("files", n)) :
            j \in JsonFields, n \in 1..MaxFiles}
    \cup {UploadRequest("POST", TRUE, Identity(<<"u", "1">>, <<"f">>),
                        NoFields, UploadFileMap(field, 1)) :
            field \in {"file", "binary"}}
    \cup {UploadRequest("POST", TRUE, Identity(<<"u", "1">>, <<"f">>) @@ m,
                        j, UploadFileMap("files", MaxFiles)) :
            m \in ResolverMeta, j \in ResolverJson}
    \cup {UploadRequest("POST", TRUE,
                        Identity(<<"u", "1">>, <<"f">>) @@ (PlainName :> <<<<"x", "/", "c">>>>),
                        NoFields, [f \in {"files"} |-> <<UploadFile(3)>>])}
    \cup {UploadRequest("POST", TRUE, Identity(<<"u", "1">>, <<"f">>),
                        NoFields, [f \in {"files"} |-> <<part>>]) :
            part \in ImageParts}

----------------------------------------------------------------------------
(* uploadImagesToMinioServer: the handler *)

\* the zero value of upload-images' uploadResult
ZeroUpload == [imgPath |-> <<>>, id |-> <<>>, err |-> Nil]

nFiles(r) == Len(fileHeaders(r))
nDeletes(r) == Len(imgPathsToDelete(r))

\* a handler that rejects a request without files and without deletes
NothingToDoRejected ==
    [status |-> 400,
     body |-> [msg |-> "no files", inserted |-> <<>>, deleted |-> <<>>]]

\* the answer to a request without files and without deletes
NothingToDo ==
    [status |-> 200,
     body |-> [msg |-> "No files to upload or delete",
               inserted |-> <<>>, deleted |-> <<>>]]

UploadStart ==
    /\ pc = "start" /\ req.route = "uploadImages"
    /\ \/ /\ req.method # "POST"
          /\ Respond(405, "method not allowed")
          /\ NothingLaunched
       \/ /\ req.method = "POST" /\ ~req.parseOK
          /\ Respond(500, [msg |-> "kZenUploadImagesToMinioServer:parse form error"])
          /\ NothingLaunched
       \/ /\ req.method = "POST" /\ req.parseOK
          /\ userId(req) = <<>>
          /\ Respond(500, [msg |-> "kZenUploadImagesToMinioServer:bad data"])
          /\ NothingLaunched
       \/ /\ req.method = "POST" /\ req.parseOK
          /\ userId(req) # <<>> /\ folder(req) = <<>>
          /\ Respond(500, [msg |-> "kZenUploadImagesToMinioServer:folder is required"])
          /\ NothingLaunched
       \/ /\ req.method = "POST" /\ req.parseOK
          /\ userId(req) # <<>> /\ folder(req) # <<>>
          /\ nFiles(req) = 0 /\ nDeletes(req) = 0
          /\ Respond(NothingToDo.status, NothingToDo.body)
          /\ NothingLaunched
       \/ /\ req.method = "POST" /\ req.parseOK
          /\ userId(req) # <<>> /\ folder(req) # <<>>
          /\ ~(nFiles(req) = 0 /\ nDeletes(req) = 0)
          /\ results' = [j \in 1..nFiles(req) |-> ZeroUpload]
          /\ deleteErrors' = [j \in 1..nDeletes(req) |-> Nil]
          /\ deletedPaths' = [j \in 1..nDeletes(req) |-> <<>>]
          /\ task' = Idle(nFiles(req))
          /\ dtask' = Idle(nDeletes(req))
          /\ pc' = "launch"
          /\ i' = 1
          /\ UNCHANGED <<req, loopP, wg, resp, nResp, store, calls, expired, uuid>>

\* an upload loop that skips a part no metadata source resolves
UploadLaunchResolvedOnly ==
    /\ pc = "launch" /\ req.route = "uploadImages"
    /\ i <= nFiles(req)
    /\ IF ResolvedImgPath(req, i) = <<>>
       THEN UNCHANGED <<wg, task>>
       ELSE /\ wg' = wg + 1
            /\ task' = [task EXCEPT ![i] = "running"]
    /\ i' = i + 1
    /\ pc' = pc
    /\ LaunchFrame

\* one iteration of the upload loop: the part is resolved, then its goroutine
\* is started with (idx, fh, imgPath, id)
UploadLaunch ==
    /\ pc = "launch" /\ req.route = "uploadImages"
    /\ i <= nFiles(req)
    /\ wg' = wg + 1
    /\ task' = [task EXCEPT ![i] = "running"]
    /\ i' = i + 1
    /\ pc' = pc
    /\ LaunchFrame

\* one iteration of the delete loop, which follows the upload loop: the loop
\* variable p takes the next path and the goroutine is started with (idx, delKey)
DeleteLaunch ==
    /\ pc = "launch" /\ req.route = "uploadImages"
    /\ i > nFiles(req) /\ i <= nFiles(req) + nDeletes(req)
    /\ loopP' = imgPathsToDelete(req)[i - nFiles(req)]
    /\ wg' = wg + 1
    /\ dtask' = [dtask EXCEPT ![i - nFiles(req)] = "running"]
    /\ i' = i + 1
    /\ pc' = pc
    /\ UNCHANGED <<req, task, results, deleteErrors, deletedPaths, resp, nResp,
                   store, calls, expired, uuid>>

\* the result an upload goroutine records
UploadResultOf(finalImgPath, id, err) ==
    IF err = Nil THEN [imgPath |-> finalImgPath, id |-> id, err |-> Nil]
    ELSE [imgPath |-> <<>>, id |-> <<>>, err |-> err]

\* the upload goroutine of part idx: open and read the part, process it, put it.
\* The error recorded stands for the wrapped error (open/read/put %q: %w).
UploadTask(idx) ==
    /\ req.route = "uploadImages"
    /\ task[idx] = "running"
    /\ \/ /\ \E e \in {ErrOpen, ErrRead} :
                results' = [results EXCEPT ![SlotOf(idx)] = UploadResultOf(<<>>, <<>>, e)]
          /\ UNCHANGED <<store, calls, uuid>>
       \/ \E err \in PutOutcomes :
            LET imgPath == ResolvedImgPath(req, idx)
                final == FinalImgPath(req, idx, imgPath, uuid + 1)
                key == UploadKey(req, final)
            IN /\ uuid' = IF imgPath = <<>> THEN uuid + 1 ELSE uuid
               /\ calls' = Called(calls, "put", idx, key, err)
               /\ store' = IF err = Nil
                           THEN Put(store, key,
                                    [data |-> PartObject(fileHeaders(req)[idx]).bytes,
                                     ct |-> PartObject(fileHeaders(req)[idx]).ct])
                           ELSE store
               /\ results' = [results EXCEPT ![SlotOf(idx)] =
                                 UploadResultOf(final, ResolvedId(req, idx), err)]
    /\ task' = [task EXCEPT ![idx] = "done"]
    /\ wg' = wg - 1
    /\ UNCHANGED <<req, pc, i, dtask, deleteErrors, deletedPaths, loopP, resp,
                   nResp, expired>>

\* the test of a delete error for "does not exist" or "NoSuchKey"
IsNotFound(err) == err = ErrNotFound

\* the delete goroutine of path idx.  p is the variable of the launching loop,
\* shared with it: the goroutine reads the value it holds when it runs.
RemoveTask(idx) ==
    /\ req.route = "uploadImages"
    /\ dtask[idx] = "running"
    /\ \E err \in RemoveOutcomes(DeleteKey(req, imgPathsToDelete(req)[idx])) :
          /\ calls' = Called(calls, "remove", idx,
                             DeleteKey(req, imgPathsToDelete(req)[idx]), err)
          /\ store' = IF err = Nil
                      THEN Remove(store, DeleteKey(req, imgPathsToDelete(req)[idx]))
                      ELSE store
          /\ deletedPaths' = IF err = Nil
                             THEN [deletedPaths EXCEPT ![SlotOf(idx)] = loopP]
                             ELSE deletedPaths
          /\ deleteErrors' = IF err # Nil /\ ~IsNotFound(err)
                             THEN [deleteErrors EXCEPT ![SlotOf(idx)] = err]
                             ELSE deleteErrors
    /\ dtask' = [dtask EXCEPT ![idx] = "done"]
    /\ wg' = wg - 1
    /\ UNCHANGED <<req, pc, i, task, results, loopP, resp, nResp, expired, uuid>>

\* inserted: one {id, img_path} per result
InsertedOf(rs) == [j \in 1..Len(rs) |-> [id |-> rs[j].id, img_path |-> rs[j].imgPath]]

\* wg.Wait(), then the first error found, or the lists
UploadRespond ==
    /\ pc = "launch" /\ req.route = "uploadImages"
    /\ i > nFiles(req) + nDeletes(req)
    /\ Joined
    /\ \/ /\ \E j \in 1..Len(results) : results[j].err # Nil
          /\ Respond(500, [msg |-> "kZenUploadImagesToMinioServer:upload error"])
       \/ /\ \A j \in 1..Len(results) : results[j].err = Nil
          /\ \E j \in 1..Len(deleteErrors) : deleteErrors[j] # Nil
          /\ Respond(500, [msg |-> "kZenUploadImagesToMinioServer:delete error"])
       \/ /\ \A j \in 1..Len(results) : results[j].err = Nil
          /\ \A j \in 1..Len(deleteErrors) : deleteErrors[j] = Nil
          /\ Respond(200, [inserted |-> InsertedOf(results),
                           deleted |-> NonEmpty(deletedPaths)])
    /\ RespondFrame

----------------------------------------------------------------------------
(* The deadline of context.WithTimeout passes while the request is served *)

DeadlineExpires ==
    /\ pc = "launch"
    /\ ~expired
    /\ expired' = TRUE
    /\ UNCHANGED <<req, pc, i, task, dtask, results, deleteErrors, deletedPaths,
                   loopP, wg, resp, nResp, store, calls, uuid>>

----------------------------------------------------------------------------
(* The specification *)

Requests == BatchRequests \cup UploadRequests

Init ==
    /\ req \in Requests
    /\ store \in InitStores
    /\ pc = "start"
    /\ i = 0
    /\ task = <<>>
    /\ dtask = <<>>
    /\ results = <<>>
    /\ deleteErrors = <<>>
    /\ deletedPaths = <<>>
    /\ loopP = <<>>
    /\ wg = 0
    /\ resp = NoResp
    /\ nResp = 0
    /\ calls = EmptyBag
    /\ expired = FALSE
    /\ uuid = 0

Next ==
    \/ BatchMethodNotAllowed
    \/ BatchGetStart
    \/ BatchGetLaunch
    \/ \E idx \in DOMAIN task : BatchGetTask(idx)
    \/ BatchGetRespond
    \/ BatchPostStart
    \/ BatchPostLaunch
    \/ \E idx \in DOMAIN task : BatchPostTask(idx)
    \/ BatchPostRespond
    \/ BatchDeleteStart
    \/ BatchDeleteLaunch
    \/ \E idx \in DOMAIN task : BatchDeleteTask(idx)
    \/ BatchDeleteRespond
    \/ UploadStart
    \/ UploadLaunch
    \/ DeleteLaunch
    \/ \E idx \in DOMAIN task : UploadTask(idx)
    \/ \E idx \in DOMAIN dtask : RemoveTask(idx)
    \/ UploadRespond
    \/ DeadlineExpires

Spec == Init /\ [][Next]_vars

\* the longest keys parameter and the most parts of a form in the liveness
\* specification
MaxLiveParamLen == 3
MaxLiveFiles == 1

\* the requests of the liveness specification: the batch requests with a keys
\* parameter up to MaxLiveParamLen and up to MaxLiveFiles parts, and the
\* upload-images requests with up to MaxLiveFiles parts, all of them plain
\* files, whose imgPathsToDelete field names at most one file
LiveRequests ==
    {r \in Requests :
        IF r.route = "batch"
        THEN /\ Len(r.keysParam) <= MaxLiveParamLen
             /\ \A f \in DOMAIN r.File : Len(r.File[f]) <= MaxLiveFiles
        ELSE
            /\ \A f \in DOMAIN r.File : \A n \in 1..Len(r.File[f]) :
                  r.File[f][n] \in {UploadFile(1), UploadFile(2), UploadFile(3)}
            /\ \A f \in DOMAIN r.File : Len(r.File[f]) <= MaxLiveFiles
            /\ Len(FormValue(r, F_imgPathsToDelete)) <= Len(UploadFile(1).Filename)}

LiveInit == Init /\ req \in LiveRequests

\* the steps of the goroutine that serves the request
HandlerSteps ==
    \/ BatchMethodNotAllowed
    \/ BatchGetStart \/ BatchGetLaunch \/ BatchGetRespond
    \/ BatchPostStart \/ BatchPostLaunch \/ BatchPostRespond
    \/ BatchDeleteStart \/ BatchDeleteLaunch \/ BatchDeleteRespond
    \/ UploadStart \/ UploadLaunch \/ DeleteLaunch \/ UploadRespond

\* the steps of the goroutines the loops launch, the delete goroutines of
\* upload-images aside
TaskSteps ==
    \/ \E idx \in DOMAIN task : BatchGetTask(idx)
    \/ \E idx \in DOMAIN task : BatchPostTask(idx)
    \/ \E idx \in DOMAIN task : BatchDeleteTask(idx)
    \/ \E idx \in DOMAIN task : UploadTask(idx)

\* a delete goroutine of upload-images ends: RemoveTask(idx) can be taken
\* whenever the goroutine runs, since RemoveOutcomes is never empty
RemoveTaskEnds ==
    \E idx \in DOMAIN dtask :
        /\ req.route = "uploadImages" /\ dtask[idx] = "running"
        /\ dtask' = [dtask EXCEPT ![idx] = "done"]

\* the scheduler runs the handler and every goroutine that can run, and every
\* store call returns; the deadline need not pass
SpecLive ==
    /\ LiveInit /\ [][Next]_vars
    /\ WF_vars(HandlerSteps) /\ WF_vars(TaskSteps) /\ WF_dtask(RemoveTaskEnds)

----------------------------------------------------------------------------
(* Concurrent upload-images requests: the handler is entered by several
   requests at once, and their upload goroutines draw from the one token
   generator of the process. *)

MaxConcurrent == 2

\* the requests that reach the upload loop with at least one part: without
\* metadata, or with a filename field for the first part
ConcurrentRequests ==
    {r \in UploadRequests :
        /\ r.method = "POST" /\ r.parseOK
        /\ userId(r) # <<>> /\ folder(r) # <<>>
        /\ DOMAIN r.Json = {}
        /\ DOMAIN r.File = {"files"}
        /\ DOMAIN r.Value \subseteq {F_userId, F_folder, <<"a", ".", "j", "p", "g">>}}

\* uuid.New() gives every call a token of its own: the token is named by the
\* goroutine that draws it
TokenOf(q, idx) == (q - 1) * MaxFiles + idx

\* the same form is submitted MaxConcurrent times at once
ConcurrentInit ==
    /\ \E r \in ConcurrentRequests : req = [q \in 1..MaxConcurrent |-> r]
    /\ store \in {st \in InitStores : DOMAIN st = {}}
    /\ pc = "launch"
    /\ task = [q \in 1..MaxConcurrent |-> [n \in 1..nFiles(req[q]) |-> "running"]]
    /\ results = [q \in 1..MaxConcurrent |-> [n \in 1..nFiles(req[q]) |-> ZeroUpload]]
    /\ uuid = 0
    /\ calls = EmptyBag
    /\ i = 0
    /\ dtask = <<>>
    /\ deleteErrors = <<>>
    /\ deletedPaths = <<>>
    /\ loopP = <<>>
    /\ wg = 0
    /\ resp = NoResp
    /\ nResp = 0
    /\ expired = FALSE

\* the upload goroutine of part idx of request q, from the resolved path to the
\* put
ConcurrentUploadTask(q, idx) ==
    /\ task[q][idx] = "running"
    /\ LET imgPath == ResolvedImgPath(req[q], idx)
           final == FinalImgPath(req[q], idx, imgPath, TokenOf(q, idx))
           key == UploadKey(req[q], final)
           obj == PartObject(fileHeaders(req[q])[idx])
           id == ResolvedId(req[q], idx)
       IN /\ uuid' = IF imgPath = <<>> THEN uuid + 1 ELSE uuid
          /\ \E err \in PutOutcomes :
                /\ calls' = Called(calls, "put", <<q, idx>>, key, err)
                /\ store' = IF err = Nil
                            THEN Put(store, key, [data |-> obj.bytes, ct |-> obj.ct])
                            ELSE store
                /\ results' = [results EXCEPT ![q][idx] = UploadResultOf(final, id, err)]
    /\ task' = [task EXCEPT ![q][idx] = "done"]
    /\ UNCHANGED <<req, pc, i, dtask, deleteErrors, deletedPaths, loopP, wg, resp,
                   nResp, expired>>

ConcurrentNext ==
    \E q \in 1..MaxConcurrent : \E idx \in DOMAIN task[q] : ConcurrentUploadTask(q, idx)

SpecConcurrent == ConcurrentInit /\ [][ConcurrentNext]_vars

----------------------------------------------------------------------------
(* The server Run builds: apiKeyMiddleware around corsMiddleware around
   logMiddleware around the mux, and the handlers of the single-object routes.
   One request is served; the bucket is the one its route names. *)

statRetries == 3

\* strings.HasPrefix, strings.TrimPrefix
HasPrefix(s, p) == Len(s) >= Len(p) /\ SubSeq(s, 1, Len(p)) = p
TrimPrefix(s, p) == IF HasPrefix(s, p) THEN SubSeq(s, Len(p) + 1, Len(s)) ELSE s

PathHealth == <<"/", "h", "e", "a", "l", "t", "h">>
PathHealthSlash == <<"/", "h", "e", "a", "l", "t", "h", "/">>
PatternObjects == <<"/", "o", "b", "j", "e", "c", "t", "s", "/">>
PatternKzenObjects == <<"/", "k", "z", "e", "n", "-", "s", "t", "o", "r", "a", "g", "e", "-", "o", "b", "j", "e", "c", "t", "s", "/">>
PatternDebugList == <<"/", "d", "e", "b", "u", "g", "/", "l", "i", "s", "t">>
PatternKzenDebugList == <<"/", "k", "z", "e", "n", "-", "s", "t", "o", "r", "a", "g", "e", "-", "d", "e", "b", "u", "g", "-", "l", "i", "s", "t">>
Bearer == <<"B", "e", "a", "r", "e", "r", " ">>

\* the bucket names Run gives the handlers: cfg.Bucket and KZEN_STORAGE
CfgBucket == "cfg.Bucket"
KZEN_STORAGE == "kzen-storage"

\* cfg.APIKey when it is set, and another key
ApiKey == <<"k">>
WrongKey == <<"x">>

\* the Content-Type of a request that holds a multipart form
MultipartForm == "multipart/form-data; boundary=b"

\* the bodies of the requests: raw with or without a Content-Type, or a form
\* with or without the part "file", the part with or without a Content-Type
NoBody == [ctype |-> "", file |-> FALSE, partCtype |-> ""]
ServerBodies ==
    {NoBody,
     [ctype |-> "text/plain", file |-> FALSE, partCtype |-> ""],
     [ctype |-> MultipartForm, file |-> FALSE, partCtype |-> ""],
     [ctype |-> MultipartForm, file |-> TRUE, partCtype |-> ""],
     [ctype |-> MultipartForm, file |-> TRUE, partCtype |-> "image/png"]}

ServerPaths ==
    {PathHealth, PathHealthSlash, PatternObjects, PatternObjects \o KeyA,
     PatternKzenObjects, PatternKzenObjects \o KeyA,
     PatternDebugList, PatternKzenDebugList, <<"/", "x">>}

\* the values of the query parameter "prefix": absent, a folder, a whole key,
\* and one no key starts with
ListPrefixes == {<<>>, <<"k", "z", "e", "n", "/">>, KeyA, <<"x">>}

ServerMethods == {"GET", "HEAD", "POST", "PUT", "DELETE", "OPTIONS", "PATCH"}

\* the requests, each with the APIKey the server that receives it was started
\* with: none, or ApiKey
ServerRequests ==
    {[route |-> "server", cfgAPIKey |-> k, method |-> mt, path |-> p,
      xApiKey |-> x, authorization |-> a, body |-> b, prefix |-> q] :
        k \in {<<>>, ApiKey}, mt \in ServerMethods, p \in ServerPaths,
        x \in {<<>>, ApiKey, WrongKey},
        a \in {<<>>, Bearer \o ApiKey, Bearer \o WrongKey, ApiKey},
        b \in ServerBodies, q \in ListPrefixes}

\* w.Header().Set(name, value)
SetHeader(h, name, value) ==
    [x \in DOMAIN h \cup {name} |-> IF x = name THEN value ELSE h[x]]

\* setCORSHeaders
setCORSHeaders(h) ==
    SetHeader(SetHeader(SetHeader(SetHeader(h,
        "Access-Control-Allow-Origin", "*"),
        "Access-Control-Allow-Methods", "GET, POST, PUT, DELETE, OPTIONS"),
        "Access-Control-Allow-Headers",
        "Content-Type, Accept, X-API-Key, Authorization, X-Requested-With"),
        "Access-Control-Max-Age", "86400")

NoHeaders == [x \in {} |-> ""]

\* the response is written with the headers set so far
ServerRespond(status, body, headers) ==
    /\ resp' = [status |-> status, body |-> body, headers |-> headers]
    /\ nResp' = nResp + 1
    /\ pc' = "done"

\* a handler passes the request on: next.ServeHTTP(w, r)
ServeNext(next, headers) ==
    /\ pc' = next
    /\ resp' = [resp EXCEPT !.headers = headers]
    /\ nResp' = nResp

\* what the server's handlers leave alone
ServerFrame ==
    UNCHANGED <<req, task, dtask, deleteErrors, deletedPaths, loopP, wg, expired, uuid>>

\* the key a request presents: X-API-Key, or the token of Authorization when
\* X-API-Key is empty and Authorization starts with "Bearer "
PresentedKey(r) ==
    IF r.xApiKey # <<>> THEN r.xApiKey
    ELSE IF HasPrefix(r.authorization, Bearer) THEN TrimPrefix(r.authorization, Bearer)
    ELSE <<>>

\* whether apiKeyMiddleware passes the request on without looking at its key
PassesUnchecked(r) ==
    \/ r.path = PathHealth \/ r.path = PathHealthSlash
    \/ r.method = "OPTIONS"
    \/ r.method = "GET"

\* a rejection that sets the Content-Type only
RejectHeadersBare(h) == SetHeader(h, "Content-Type", "application/json")

\* the headers of the 401 of apiKeyMiddleware: the CORS headers, then the
\* Content-Type
RejectHeaders(h) == SetHeader(setCORSHeaders(h), "Content-Type", "application/json")

\* apiKeyMiddleware(apiKey), installed when cfg.APIKey is not empty
ApiKeyMiddleware ==
    /\ pc = "apiKeyMiddleware"
    /\ IF PassesUnchecked(req) \/ PresentedKey(req) = req.cfgAPIKey
       THEN ServeNext("corsMiddleware", resp.headers)
       ELSE ServerRespond(401, "{\"error\":\"invalid or missing API key\"}",
                          RejectHeaders(resp.headers))
    /\ UNCHANGED <<i, results, store, calls>>
    /\ ServerFrame

\* corsMiddleware: the headers on every response, and the reply to a preflight
CorsMiddleware ==
    /\ pc = "corsMiddleware"
    /\ IF req.method = "OPTIONS"
       THEN ServerRespond(200, "", setCORSHeaders(resp.headers))
       ELSE ServeNext("logMiddleware", setCORSHeaders(resp.headers))
    /\ UNCHANGED <<i, results, store, calls>>
    /\ ServerFrame

\* the handler the mux picks for a path: the exact pattern, else the longest
\* pattern ending in "/" that is a prefix of it, else NotFound
MuxHandler(path) ==
    IF path = PathHealth \/ HasPrefix(path, PathHealthSlash) THEN "healthHandler"
    ELSE IF HasPrefix(path, PatternObjects) \/ HasPrefix(path, PatternKzenObjects)
    THEN "objectsHandler"
    ELSE IF path = PatternDebugList \/ path = PatternKzenDebugList
    THEN "debugList"
    ELSE "NotFound"

\* the bucket Run gave the handler of the route
BucketOf(path) ==
    IF HasPrefix(path, PatternKzenObjects) \/ path = PatternKzenDebugList
    THEN KZEN_STORAGE
    ELSE CfgBucket

\* logMiddleware calls the mux, which calls the handler of the route
LogMiddleware ==
    /\ pc = "logMiddleware"
    /\ ServeNext(MuxHandler(req.path), resp.headers)
    /\ UNCHANGED <<i, results, store, calls>>
    /\ ServerFrame

\* http.NotFound
NotFound ==
    /\ pc = "NotFound"
    /\ ServerRespond(404, "404 page not found", resp.headers)
    /\ UNCHANGED <<i, results, store, calls>>
    /\ ServerFrame

healthHandler ==
    /\ pc = "healthHandler"
    /\ ServerRespond(200, "ok", resp.headers)
    /\ UNCHANGED <<i, results, store, calls>>
    /\ ServerFrame

\* objectsHandler(client, bucket): both routes are built with the prefix
\* "/objects/"
objectKey(r) == TrimPrefix(r.path, PatternObjects)

\* objectsHandlerWithPrefix: a method it has no handler for
ObjectsMethodNotAllowed ==
    /\ pc = "objectsHandler"
    /\ req.method \notin {"GET", "HEAD", "POST", "PUT", "DELETE"}
    /\ ServerRespond(405, "method not allowed", resp.headers)
    /\ UNCHANGED <<i, results, store, calls>>
    /\ ServerFrame

\* a retry after any failure
AnyFailure(err) == err # Nil

\* strings.Contains(err.Error(), "Access Denied")
ContainsAccessDenied(err) == err = ErrDenied

\* a test that takes a refusal for an absence as well
MissingOrRefused(err) == err \in {ErrNotFound, ErrDenied}

\* strings.Contains(err.Error(), "does not exist")
ContainsDoesNotExist(err) == err = ErrNotFound

\* client.StatObject: nil for a key the bucket holds; the deadline of the
\* context, a refusal or the absence of the key otherwise
StatOutcomes(k) ==
    {ErrDenied, ErrDeadline} \cup (IF Exists(k) THEN {Nil} ELSE {ErrNotFound})

\* the zero minio.ObjectInfo and a nil error
NoStat == [info |-> [ContentType |-> ""], err |-> Nil]

\* proxyGetWithPrefix up to the stat loop
ProxyGetStart ==
    /\ pc = "objectsHandler"
    /\ req.method \in {"GET", "HEAD"}
    /\ IF objectKey(req) = <<>>
       THEN /\ ServerRespond(400, "object key required", resp.headers)
            /\ UNCHANGED <<i, results>>
       ELSE /\ pc' = "StatObject"
            /\ i' = 0
            /\ results' = NoStat
            /\ UNCHANGED <<resp, nResp>>
    /\ UNCHANGED <<store, calls>>
    /\ ServerFrame

\* one turn of the stat loop, attempt i: the call, then break on nil or on an
\* error that is not "Access Denied", else attempt++ (after the sleep when a
\* turn is left)
ProxyGetStat ==
    /\ pc = "StatObject"
    /\ i < statRetries
    /\ \E err \in StatOutcomes(objectKey(req)) :
          /\ calls' = Called(calls, "stat", i, objectKey(req), err)
          /\ results' = [info |-> IF err = Nil
                                  THEN [ContentType |-> store[objectKey(req)].ct]
                                  ELSE [ContentType |-> ""],
                         err |-> err]
          /\ IF err = Nil THEN pc' = "GetObject" /\ i' = i
             ELSE IF ~ContainsAccessDenied(err) THEN pc' = "StatFailed" /\ i' = i
             ELSE /\ i' = i + 1
                  /\ pc' = IF i + 1 < statRetries THEN "StatObject" ELSE "StatFailed"
    /\ UNCHANGED <<resp, nResp, store>>
    /\ ServerFrame

\* the stat loop ended with an error
ProxyGetStatFailed ==
    /\ pc = "StatFailed"
    /\ IF ContainsDoesNotExist(results.err)
       THEN ServerRespond(404, "object not found",
                          SetHeader(resp.headers, "X-MinIO-Error", results.err))
       ELSE ServerRespond(500, "failed to get object info",
                          SetHeader(resp.headers, "X-MinIO-Error", results.err))
    /\ UNCHANGED <<i, results, store, calls>>
    /\ ServerFrame

\* client.GetObject, then the headers and io.Copy, which may stop early
ProxyGetObject ==
    /\ pc = "GetObject"
    /\ \E err \in {Nil, ErrDenied, ErrDeadline} :
          /\ calls' = Called(calls, "get", i, objectKey(req), err)
          /\ IF err # Nil
             THEN ServerRespond(404, "object not found",
                                SetHeader(resp.headers, "X-MinIO-Error", err))
             ELSE \E copied \in BOOLEAN :
                    ServerRespond(200,
                        IF copied THEN store[objectKey(req)].data
                        ELSE <<"cut", objectKey(req)>>,
                        SetHeader(IF results.info.ContentType # ""
                                  THEN SetHeader(resp.headers, "Content-Type",
                                                 results.info.ContentType)
                                  ELSE resp.headers,
                                  "Content-Length", "size"))
    /\ UNCHANGED <<i, results, store>>
    /\ ServerFrame

\* strings.Contains(r.Header.Get("Content-Type"), "multipart/form-data")
IsMultipart(ctype) == ctype = MultipartForm

\* contentType of proxyPost: the part's or the request's, else the default
PostContentType(b) ==
    IF IsMultipart(b.ctype)
    THEN IF b.partCtype # "" THEN b.partCtype ELSE "application/octet-stream"
    ELSE IF b.ctype # "" THEN b.ctype ELSE "application/octet-stream"

\* proxyPostWithPrefix, also the handler of PUT
ProxyPost ==
    /\ pc = "objectsHandler"
    /\ req.method \in {"POST", "PUT"}
    /\ IF objectKey(req) = <<>>
       THEN /\ ServerRespond(400, "object key required", resp.headers)
            /\ UNCHANGED <<store, calls>>
       ELSE IF IsMultipart(req.body.ctype) /\ ~req.body.file
       THEN /\ ServerRespond(400, "multipart form requires 'file' field", resp.headers)
            /\ UNCHANGED <<store, calls>>
       ELSE \E err \in {Nil, ErrDenied, ErrDeadline} :
              /\ calls' = Called(calls, "put", 0, objectKey(req), err)
              /\ IF err # Nil
                 THEN /\ ServerRespond(500, "upload failed", resp.headers)
                      /\ store' = store
                 ELSE /\ ServerRespond(201, [ok |-> TRUE, key |-> objectKey(req)],
                                       SetHeader(resp.headers, "Content-Type",
                                                 "application/json"))
                      /\ store' = Put(store, objectKey(req),
                                      [data |-> <<"sent", objectKey(req)>>,
                                       ct |-> PostContentType(req.body)])
    /\ UNCHANGED <<i, results>>
    /\ ServerFrame

\* proxyDeleteWithPrefix
ProxyDelete ==
    /\ pc = "objectsHandler"
    /\ req.method = "DELETE"
    /\ IF objectKey(req) = <<>>
       THEN /\ ServerRespond(400, "object key required", resp.headers)
            /\ UNCHANGED <<store, calls>>
       ELSE \E err \in {Nil, ErrDenied, ErrDeadline} :
              /\ calls' = Called(calls, "remove", 0, objectKey(req), err)
              /\ IF err # Nil
                 THEN /\ ServerRespond(500, "delete failed", resp.headers)
                      /\ store' = store
                 ELSE /\ ServerRespond(200, [ok |-> TRUE, deleted |-> objectKey(req)],
                                       SetHeader(resp.headers, "Content-Type",
                                                 "application/json"))
                      /\ store' = Remove(store, objectKey(req))
    /\ UNCHANGED <<i, results>>
    /\ ServerFrame

\* the orders in which the keys of a set can be delivered
Orders(S) ==
    {s \in [1..Cardinality(S) -> S] :
        \A a, b \in 1..Cardinality(S) : s[a] = s[b] => a = b}

\* the entries a channel delivers for the keys ks, and for the keys before
\* position n followed by an entry that holds the error err
KeyEntries(ks) == [j \in 1..Len(ks) |-> [Key |-> ks[j], Err |-> Nil]]
CutByError(ks, n, err) ==
    KeyEntries(SubSeq(ks, 1, n)) \o <<[Key |-> <<>>, Err |-> err]>>

\* client.ListObjects with Prefix and Recursive: the channel delivers the keys
\* of the bucket that start with the prefix, in an order of the store's, and
\* is closed after them or after an entry that holds an error
ListObjects(st, prefix) ==
    LET under == {k \in DOMAIN st : HasPrefix(k, prefix)}
    IN  {KeyEntries(ks) : ks \in Orders(under)}
        \cup {CutByError(ks, n, err) :
                 ks \in Orders(under), n \in 0..Cardinality(under),
                 err \in {ErrDenied, ErrDeadline}}

\* the error of the entry that ends a delivery, Nil when none does
ListError(ch) ==
    IF ch # <<>> /\ ch[Len(ch)].Err # Nil THEN ch[Len(ch)].Err ELSE Nil

\* a handler that puts the newest key first
PrependKey(keys, obj) == <<obj.Key>> \o keys

\* keys = append(keys, obj.Key)
AppendKey(keys, obj) == Append(keys, obj.Key)

\* a handler that lists for HEAD as well
GetOrHead(method) == method \in {"GET", "HEAD"}

\* the methods debugList serves
DebugListServes(method) == method = "GET"

\* json.NewEncoder(w).Encode of the map: a nil slice is written as null
EncodeList(bucket, keys) ==
    [bucket |-> bucket, objects |-> [null |-> keys = <<>>, items |-> keys]]

\* debugList up to the range loop: the method check and the ListObjects call
DebugListStart ==
    /\ pc = "debugList"
    /\ IF ~DebugListServes(req.method)
       THEN /\ ServerRespond(405, "method not allowed", resp.headers)
            /\ UNCHANGED <<i, results, calls>>
       ELSE \E ch \in ListObjects(store, req.prefix) :
              /\ calls' = Called(calls, "list", 0, req.prefix, ListError(ch))
              /\ results' = [ch |-> ch, keys |-> <<>>]
              /\ i' = 1
              /\ pc' = "rangeCh"
              /\ UNCHANGED <<resp, nResp>>
    /\ UNCHANGED store
    /\ ServerFrame

\* one turn of the loop over the channel, or the response after it is closed
DebugListRange ==
    /\ pc = "rangeCh"
    /\ IF i > Len(results.ch)
       THEN /\ ServerRespond(200, EncodeList(BucketOf(req.path), results.keys),
                             SetHeader(resp.headers, "Content-Type",
                                       "application/json"))
            /\ UNCHANGED <<i, results>>
       ELSE IF results.ch[i].Err # Nil
       THEN /\ ServerRespond(500, results.ch[i].Err, resp.headers)
            /\ UNCHANGED <<i, results>>
       ELSE /\ results' = [results EXCEPT !.keys = AppendKey(@, results.ch[i])]
            /\ i' = i + 1
            /\ UNCHANGED <<pc, resp, nResp>>
    /\ UNCHANGED <<store, calls>>
    /\ ServerFrame

\* a server started with or without an API key receives one request; without a
\* key no apiKeyMiddleware is installed, only POST and PUT read a body, and
\* only debugList reads the query
ServerInit ==
    /\ req \in {r \in ServerRequests :
                  /\ r.cfgAPIKey = <<>> => (r.xApiKey = <<>> /\ r.authorization = <<>>)
                  /\ r.method \notin {"POST", "PUT"} => r.body = NoBody
                  /\ r.path \notin {PatternDebugList, PatternKzenDebugList} =>
                        r.prefix = <<>>}
    /\ store \in InitStores
    /\ pc = IF req.cfgAPIKey # <<>> THEN "apiKeyMiddleware" ELSE "corsMiddleware"
    /\ resp = [status |-> 0, body |-> "none", headers |-> NoHeaders]
    /\ nResp = 0
    /\ i = 0
    /\ results = NoStat
    /\ calls = EmptyBag
    /\ task = <<>>
    /\ dtask = <<>>
    /\ deleteErrors = <<>>
    /\ deletedPaths = <<>>
    /\ loopP = <<>>
    /\ wg = 0
    /\ expired = FALSE
    /\ uuid = 0

ServerNext ==
    \/ ApiKeyMiddleware
    \/ CorsMiddleware
    \/ LogMiddleware
    \/ NotFound
    \/ healthHandler
    \/ ObjectsMethodNotAllowed
    \/ ProxyGetStart
    \/ ProxyGetStat
    \/ ProxyGetStatFailed
    \/ ProxyGetObject
    \/ ProxyPost
    \/ ProxyDelete
    \/ DebugListStart
    \/ DebugListRange

SpecServer == ServerInit /\ [][ServerNext]_vars

----------------------------------------------------------------------------
(* Properties *)

\* the request passed validation and its launching loop was entered
Admitted == i > 0

\* the handler has written its response
Answered == pc = "done"

\* number of calls of operation op issued by the task of index idx
NumCalls(op, idx) ==
    BagCardinality([c \in {x \in BagToSet(calls) : x.op = op /\ x.idx = idx}
                      |-> calls[c]])

\* whether the launching loop of the request starts a task for item j
Launches(j) ==
    IF req.route = "batch" /\ req.method \in {"GET", "DELETE"}
    THEN KeysOf(req)[j] # <<>>
    ELSE TRUE

\* the key field of result slot j of a /batch request
ResultKey(j) == IF req.method = "GET" THEN results[j].key ELSE results[j].Key

\* C1: in batch fetch, upload and delete the result list has one entry per item
\* and, whatever the order in which the tasks complete, the entry of a completed
\* task (at the response: every entry) carries the key of the item of the same
\* index and the outcome of that item's own store call.
C1_ResultsIndexAligned ==
    (req.route = "batch" /\ Admitted) =>
        /\ Len(results) = Len(KeysOf(req))
        /\ \A j \in 1..Len(results) :
              (task[j] = "done" \/ Answered) => ResultKey(j) = KeysOf(req)[j]
        /\ \A j \in 1..Len(results) :
              (task[j] = "done" /\ req.method = "GET" /\ results[j].err = Nil) =>
                  /\ Exists(KeysOf(req)[j])
                  /\ results[j].data = store[KeysOf(req)[j]].data
        /\ \A j \in 1..Len(results) :
              (task[j] = "done" /\ req.method # "GET" /\ results[j].OK) =>
                  \E c \in BagToSet(calls) :
                      c.idx = j /\ c.key = KeysOf(req)[j] /\ c.err = Nil

\* C1 witness: the second of two distinct items has completed before the first
C1_CompletedOutOfOrder ==
    /\ req.route = "batch" /\ pc = "launch"
    /\ Len(KeysOf(req)) = 2
    /\ KeysOf(req)[1] # KeysOf(req)[2]
    /\ task = <<"running", "done">>
    /\ ResultKey(2) = KeysOf(req)[2]

\* the operation a task of the request issues at the store
TaskOp ==
    IF req.route = "uploadImages" THEN "put"
    ELSE IF req.method = "GET" THEN "get"
    ELSE IF req.method = "POST" THEN "put"
    ELSE "remove"

\* the error of result slot j, Nil or "" when it holds none
ResultErr(j) ==
    IF req.route = "batch" /\ req.method # "GET" THEN results[j].Err ELSE results[j].err

\* C2: in every batch handler no response is written while a task is running:
\* when the response is written every task the loop launches has completed, and
\* has made its store call unless its own part could not be opened or read,
\* whatever the other tasks recorded; nothing runs after the response.
C2_ResponseAfterJoin ==
    (nResp > 0 /\ Admitted) =>
        /\ wg = 0
        /\ \A j \in DOMAIN task :
              /\ task[j] = IF Launches(j) THEN "done" ELSE "idle"
              /\ (Launches(j) /\ ResultErr(j) \notin {ErrOpen, ErrRead}) =>
                    NumCalls(TaskOp, j) = 1
        /\ \A j \in DOMAIN dtask :
              dtask[j] = "done" /\ NumCalls("remove", j) = 1

\* C2 witness: a response written after one task failed and its sibling,
\* launched after it, succeeded
C2_AnsweredAfterFailure ==
    /\ Answered /\ Admitted
    /\ req.route = "uploadImages"
    /\ Len(results) >= 2
    /\ results[1].err # Nil
    /\ results[2].err = Nil
    /\ NumCalls("put", 2) = 1

\* C3: in batch upload and batch delete the response has status 200 and carries
\* the summary; every launched item whose file opened has had its store call
\* made exactly once; an item whose call succeeded is reported with ok = true and
\* an item whose call failed with ok = false and the error text, whatever
\* happened to the other items.
C3_PartialFailureSummary ==
    (req.route = "batch" /\ req.method \in {"POST", "DELETE"}
     /\ Answered /\ Admitted) =>
        /\ resp.status = 200
        /\ resp.body = results
        /\ \A j \in 1..Len(results) :
              (Launches(j) /\ results[j].Err # ErrOpen) =>
                  NumCalls(IF req.method = "POST" THEN "put" ELSE "remove", j) = 1
        /\ \A j \in 1..Len(results) : \A c \in BagToSet(calls) :
              c.idx = j =>
                  results[j] = [Key |-> KeysOf(req)[j], OK |-> c.err = Nil,
                                Err |-> IF c.err = Nil THEN "" ELSE c.err]

\* C3 witness: a summary with one failed and one successful store call
C3_OneFailedOneSucceeded ==
    /\ req.route = "batch" /\ req.method \in {"POST", "DELETE"}
    /\ Answered /\ Admitted
    /\ \E j, k \in 1..Len(results) :
          /\ results[j].OK
          /\ ~results[k].OK /\ results[k].Err = ErrDenied
          /\ NumCalls(IF req.method = "POST" THEN "put" ELSE "remove", k) = 1

\* the store calls that failed, a delete of an absent path not counted
FailedCalls ==
    {c \in BagToSet(calls) : c.err # Nil /\ ~(c.op = "remove" /\ IsNotFound(c.err))}

\* C4: in upload-images, when exactly one upload or delete item fails at the
\* store and all the others succeed, the response has status 200 and reports
\* the successful items in inserted and deleted.
C4_PartialFailureReported ==
    (/\ req.route = "uploadImages" /\ Answered /\ Admitted
     /\ \A j \in 1..Len(results) : results[j].err \notin {ErrOpen, ErrRead}
     /\ Cardinality(FailedCalls) = 1
     /\ \E c \in BagToSet(calls) : c.err = Nil) =>
        /\ resp.status = 200
        /\ \A c \in BagToSet(calls) :
              (c.op = "put" /\ c.err = Nil) =>
                  \E k \in 1..Len(resp.body.inserted) :
                      resp.body.inserted[k].img_path = results[c.idx].imgPath
        /\ \A c \in BagToSet(calls) :
              (c.op = "remove" /\ c.err = Nil) =>
                  \E k \in 1..Len(resp.body.deleted) :
                      resp.body.deleted[k] = imgPathsToDelete(req)[c.idx]

\* the parts of the keys that are not blank and exist in the store, in order
RECURSIVE PartsOfExisting(_)
PartsOfExisting(keys) ==
    IF keys = <<>> THEN <<>>
    ELSE IF Head(keys) # <<>> /\ Exists(Head(keys))
    THEN <<[name |-> Head(keys), filename |-> Head(keys),
            ct |-> IF store[Head(keys)].ct = "" THEN "application/octet-stream"
                   ELSE store[Head(keys)].ct,
            data |-> store[Head(keys)].data]>> \o PartsOfExisting(Tail(keys))
    ELSE PartsOfExisting(Tail(keys))

\* C5: a batch fetch whose store calls fail for missing keys only answers 200
\* with exactly one part per non-blank requested key that exists in the store,
\* in request order, each with the bytes and content type of its key; the
\* missing keys yield no part.
C5_PartsAreTheExistingKeys ==
    (/\ req.route = "batch" /\ req.method = "GET" /\ Answered /\ Admitted
     /\ \A c \in BagToSet(calls) : c.err \in {Nil, ErrNotFound}) =>
        /\ resp.status = 200
        /\ resp.body = PartsOfExisting(KeysOf(req))

\* C6: the batch fetch response holds one part per successfully fetched item
\* and nothing else; a blank key contributes no part.
C6_OnePartPerFetchedItem ==
    (req.route = "batch" /\ req.method = "GET" /\ Answered /\ Admitted) =>
        /\ Len(resp.body) =
              Cardinality({j \in 1..Len(results) :
                              task[j] = "done" /\ results[j].err = Nil})
        /\ \A k \in 1..Len(resp.body) : resp.body[k].name # <<>>

\* C7: in batch fetch, upload and delete no task is launched and no store call
\* is issued for an item whose key is blank.
C7_NoTaskForBlankKey ==
    (req.route = "batch" /\ Admitted) =>
        /\ \A j \in 1..Len(KeysOf(req)) :
              KeysOf(req)[j] = <<>> => task[j] = "idle"
        /\ \A c \in BagToSet(calls) : c.key # <<>>

\* C8: a batch upload whose number of files differs from its number of keys
\* launches nothing, issues no store call and is answered with a 4xx status.
C8_CountMismatchRejected ==
    (/\ req.route = "batch" /\ req.method = "POST"
     /\ Len(BatchFilesOf(req)) # Len(Split(req.keysParam, ","))) =>
        /\ calls = EmptyBag
        /\ wg = 0 /\ ~Admitted
        /\ Answered => (resp.status >= 400 /\ resp.status <= 499)

\* C8 witness: a well-formed multipart upload with keys, rejected for its counts
C8_RejectedForCounts ==
    /\ req.route = "batch" /\ req.method = "POST"
    /\ req.isMultipart /\ req.parseOK /\ req.keysParam # <<>>
    /\ Len(BatchFilesOf(req)) > Len(KeysOf(req))
    /\ Answered /\ resp.status = 400 /\ calls = EmptyBag

\* C9: in upload-images an unparseable form, a missing userId or a missing
\* folder is answered with a 4xx status, and no put or delete is issued.
C9_ShapeErrorsAre4xx ==
    (/\ req.route = "uploadImages" /\ req.method = "POST"
     /\ (~req.parseOK \/ userId(req) = <<>> \/ folder(req) = <<>>)) =>
        /\ calls = EmptyBag
        /\ Answered => (resp.status >= 400 /\ resp.status <= 499)

\* C10 as stated: in upload-images every submitted part has had exactly one put
\* attempt when the response is written.
C10_EveryPartPutOnce ==
    (req.route = "uploadImages" /\ Answered /\ Admitted) =>
        \A j \in 1..nFiles(req) : NumCalls("put", j) = 1

\* C10 amended: every submitted part has its own result slot and its own task;
\* a part that is opened and read has exactly one put attempt, under the key of
\* its resolved path or, when no metadata source matched it, under a generated
\* name userId_token+ext, and on success its slot holds that path with the
\* resolved id; a part that cannot be opened or read has no put attempt.
C10_EveryReadablePartPutOnce ==
    (req.route = "uploadImages" /\ Admitted) =>
        /\ Len(results) = nFiles(req)
        /\ Len(task) = nFiles(req)
        /\ Answered => \A j \in 1..nFiles(req) : task[j] = "done"
        /\ \A j \in 1..nFiles(req) :
              task[j] = "done" =>
                  IF results[j].err \in {ErrOpen, ErrRead}
                  THEN NumCalls("put", j) = 0
                  ELSE /\ NumCalls("put", j) = 1
                       /\ \A c \in BagToSet(calls) :
                             (c.op = "put" /\ c.idx = j) =>
                                 /\ \E n \in 1..nFiles(req) :
                                       c.key = UploadKey(req,
                                                  IF ResolvedImgPath(req, j) # <<>>
                                                  THEN ResolvedImgPath(req, j)
                                                  ELSE userId(req) \o <<"_">>
                                                       \o UuidString(n)
                                                       \o PartExt(fileHeaders(req)[j]))
                                 /\ c.err = Nil =>
                                       /\ UploadKey(req, results[j].imgPath) = c.key
                                       /\ results[j].id = ResolvedId(req, j)

\* C10 witness: a request answered 200 in which one part was resolved by
\* metadata and another, unmatched, was stored under a generated name
C10_FallbackPartStored ==
    /\ req.route = "uploadImages" /\ Answered /\ resp.status = 200
    /\ \E j, k \in 1..nFiles(req) :
          /\ ResolvedImgPath(req, j) # <<>>
          /\ resp.body.inserted[j].img_path = ResolvedImgPath(req, j)
          /\ ResolvedImgPath(req, k) = <<>>
          /\ \E n \in 1..nFiles(req) :
                resp.body.inserted[k].img_path =
                    GeneratedName(req, fileHeaders(req)[k], n)
          /\ NumCalls("put", k) = 1

\* the parts of the concurrent requests that the fallback step names
FallbackParts ==
    {qn \in (1..MaxConcurrent) \X (1..MaxFiles) :
        /\ qn[2] <= nFiles(req[qn[1]])
        /\ ResolvedImgPath(req[qn[1]], qn[2]) = <<>>}

\* C11: a destination path made by the fallback step is userId_token+extension,
\* and no two fallback parts, of one request or of requests running at the same
\* time, get the same destination path or the same object key.
C11_FallbackPathsDistinct ==
    \A qn \in FallbackParts :
        LET r == results[qn[1]][qn[2]]
        IN /\ (task[qn[1]][qn[2]] = "done" /\ r.err = Nil) =>
                 /\ \E n \in 1..Len(Digits) :
                       r.imgPath = userId(req[qn[1]]) \o <<"_">> \o UuidString(n)
                                   \o PartExt(fileHeaders(req[qn[1]])[qn[2]])
                 /\ \A q \in 1..MaxConcurrent : \A n \in DOMAIN results[q] :
                       (<<q, n>> # qn /\ task[q][n] = "done" /\ results[q][n].err = Nil)
                           => results[q][n].imgPath # r.imgPath
           /\ \A c, d \in BagToSet(calls) :
                 (c.idx = qn /\ d.idx # qn) => c.key # d.key

\* C11 witness: two requests of the same user, each with a fallback part of the
\* same extension, both stored
C11_TwoRequestsFellBack ==
    \E n, m \in 1..MaxFiles :
        /\ <<1, n>> \in FallbackParts /\ <<2, m>> \in FallbackParts
        /\ userId(req[1]) = userId(req[2])
        /\ PartExt(fileHeaders(req[1])[n]) = PartExt(fileHeaders(req[2])[m])
        /\ task[1][n] = "done" /\ results[1][n].err = Nil
        /\ task[2][m] = "done" /\ results[2][m].err = Nil

\* the trimmed value of the value field named like the filename of part n
NamedValue(r, n) == TrimSpace(FormValue(r, fileHeaders(r)[n].Filename))

\* part n of the request is put under path p and, once stored, reported with it
StoredUnder(n, p) ==
    /\ \A c \in BagToSet(calls) :
          (c.op = "put" /\ c.idx = n) => c.key = UploadKey(req, p)
    /\ (task[n] = "done" /\ results[n].err = Nil) => results[n].imgPath = p

\* C12: a part whose filename (with an image extension) names a value field of
\* the form is stored under that field's value, whatever identifier map, path
\* list or singular path the form also carries.
C12_FilenameMatchFirst ==
    (req.route = "uploadImages" /\ Admitted) =>
        \A n \in 1..nFiles(req) :
            (/\ ~isKnownFormField(fileHeaders(req)[n].Filename)
             /\ HasImageSuffix(ToLower(fileHeaders(req)[n].Filename))
             /\ NamedValue(req, n) # <<>>) => StoredUnder(n, NamedValue(req, n))

\* C12 witness: part 1 is answered under the value of its filename field although
\* newSources maps its positional identifier and lists a path at its index
C12_FilenameBeatsIdentifierMap ==
    /\ req.route = "uploadImages" /\ Answered /\ resp.status = 200
    /\ nFiles(req) >= 1 /\ NamedValue(req, 1) # <<>>
    /\ JsonParses(req, F_newSources)
    /\ Len(fileIds(req)) >= 1 /\ fileIds(req)[1] \in DOMAIN pathById(req).map
    /\ Len(imgPaths(req)) >= 1 /\ imgPaths(req)[1] # NamedValue(req, 1)
    /\ resp.body.inserted[1].img_path = NamedValue(req, 1)

\* C13: a part whose filename is no reserved field name and names a value field
\* of the form is stored under that field's value, whatever the filename is.
C13_AnyFilenameMapped ==
    (req.route = "uploadImages" /\ Admitted) =>
        \A n \in 1..nFiles(req) :
            (/\ ~isKnownFormField(fileHeaders(req)[n].Filename)
             /\ NamedValue(req, n) # <<>>) => StoredUnder(n, NamedValue(req, n))

\* the filename map matches part n: a value field that is no reserved name, ends
\* in an image extension, is named like the part's file and has a value
FilenameMatches(r, n) ==
    /\ ~isKnownFormField(fileHeaders(r)[n].Filename)
    /\ HasImageSuffix(ToLower(fileHeaders(r)[n].Filename))
    /\ NamedValue(r, n) # <<>>

\* the {id, path} entries of the JSON list that serves as identifier map: those
\* of newSources when it parses and has such an entry, else those of
\* attachedFiles when it parses
IdentifierEntries(r) ==
    IF JsonParses(r, F_newSources) /\ FullEntries(JsonEntries(r, F_newSources)) # <<>>
    THEN FullEntries(JsonEntries(r, F_newSources))
    ELSE IF JsonParses(r, F_attachedFiles)
    THEN FullEntries(JsonEntries(r, F_attachedFiles))
    ELSE <<>>

\* the last entry of the identifier map with the given id, 0 when there is none
RECURSIVE LastEntryOf(_, _, _)
LastEntryOf(es, id, j) ==
    IF j = 0 THEN 0
    ELSE IF es[j].id = id THEN j
    ELSE LastEntryOf(es, id, j - 1)

\* C14: a part the filename map does not match, whose positional identifier is
\* the id of an entry of the JSON identifier map, is stored under that entry's
\* path and reported with that entry's id.
C14_IdentifierMapStep ==
    (req.route = "uploadImages" /\ Admitted) =>
        \A n \in 1..nFiles(req) :
            LET es == IdentifierEntries(req)
                j == IF n <= Len(fileIds(req))
                     THEN LastEntryOf(es, fileIds(req)[n], Len(es)) ELSE 0
            IN (~FilenameMatches(req, n) /\ j # 0) =>
                  /\ StoredUnder(n, es[j].path)
                  /\ (task[n] = "done" /\ results[n].err = Nil) =>
                        results[n].id = es[j].id

\* C14 witness: part 1 is answered with the entry of its positional identifier,
\* which is not the entry at its index
C14_ResolvedByIdentifier ==
    /\ req.route = "uploadImages" /\ Answered /\ resp.status = 200
    /\ nFiles(req) >= 1 /\ ~FilenameMatches(req, 1)
    /\ Len(fileIds(req)) >= 1 /\ Len(IdentifierEntries(req)) >= 2
    /\ IdentifierEntries(req)[2].id = fileIds(req)[1]
    /\ IdentifierEntries(req)[1].id # fileIds(req)[1]
    /\ resp.body.inserted[1] = [id |-> IdentifierEntries(req)[2].id,
                                 img_path |-> IdentifierEntries(req)[2].path]

\* the correlationId the cascade of the identifier map and the ids list gives
\* part n, without regard to the filename map
CascadeId(r, n) ==
    IF /\ n <= Len(fileIds(r))
       /\ LastEntryOf(IdentifierEntries(r), fileIds(r)[n], Len(IdentifierEntries(r))) # 0
    THEN fileIds(r)[n]
    ELSE IF n <= Len(ids(r)) THEN ids(r)[n]
    ELSE <<>>

\* C15: the correlationId of every stored part is the identifier-map id of its
\* positional identifier when the map has it, else the index-matched entry of
\* the ids list, else empty, whether or not the filename map gave the
\* destination.
C15_IdResolvedIndependently ==
    (req.route = "uploadImages" /\ Admitted) =>
        \A n \in 1..nFiles(req) :
            (task[n] = "done" /\ results[n].err = Nil) =>
                results[n].id = CascadeId(req, n)

\* the value of the singular path field: path, else imgPath
SingularPath(r) ==
    IF TrimSpace(FormValue(r, F_path)) # <<>> THEN TrimSpace(FormValue(r, F_path))
    ELSE TrimSpace(FormValue(r, F_imgPath))

\* C16: in a request with two or more parts the singular path field is the
\* destination of no part; with exactly one part, and no earlier source
\* matching, it is the destination of that part.
C16_SingularPathForOnePartOnly ==
    (req.route = "uploadImages" /\ Admitted /\ SingularPath(req) # <<>>) =>
        /\ nFiles(req) >= 2 =>
              \A c \in BagToSet(calls) :
                  c.op = "put" => c.key # UploadKey(req, SingularPath(req))
        /\ (nFiles(req) = 1 /\ ~FilenameMatches(req, 1) /\ Len(imgPaths(req)) = 1
             /\ IdentifierEntries(req) = <<>>) =>
              StoredUnder(1, SingularPath(req))

\* the request without the JSON field key
Without(r, key) ==
    [r EXCEPT !.Json = [k \in DOMAIN r.Json \ {key} |-> r.Json[k]]]

\* every part of the request was handled as request r resolves it: put under
\* r's resolved path, or under a generated name when r resolves none, and
\* reported with r's correlationId
ResolvedAsIn(r) ==
    \A n \in 1..nFiles(req) :
        /\ \A c \in BagToSet(calls) :
              (c.op = "put" /\ c.idx = n) =>
                  IF ResolvedImgPath(r, n) # <<>>
                  THEN c.key = UploadKey(r, ResolvedImgPath(r, n))
                  ELSE \E tok \in 1..Len(Digits) :
                          c.key = UploadKey(r, GeneratedName(r, fileHeaders(r)[n], tok))
        /\ (task[n] = "done" /\ results[n].err = Nil) =>
              /\ results[n].id = ResolvedId(r, n)
              /\ ResolvedImgPath(r, n) # <<>> => results[n].imgPath = ResolvedImgPath(r, n)

\* C17: when newSources is present and parses, every part is handled as in the
\* same request without attachedFiles.
C17_AttachedFilesOnlyWithoutNewSources ==
    (/\ req.route = "uploadImages" /\ Admitted
     /\ F_newSources \in DOMAIN req.Json /\ req.Json[F_newSources].parses) =>
        ResolvedAsIn(Without(req, F_attachedFiles))

\* no store call failed and every part could be opened and read
NothingFailed ==
    /\ FailedCalls = {}
    /\ \A n \in 1..Len(results) : results[n].err = Nil

\* C18: a newSources or attachedFiles field that json.Unmarshal rejects makes no
\* error response, and every part is handled as in the same request without
\* that field.
C18_MalformedJsonIsAbsent ==
    (req.route = "uploadImages" /\ Admitted) =>
        \A key \in {F_newSources, F_attachedFiles} :
            (key \in DOMAIN req.Json /\ ~req.Json[key].parses) =>
                /\ ResolvedAsIn(Without(req, key))
                /\ (Answered /\ NothingFailed) => resp.status = 200

\* C18 witness: a request whose rejected newSources had entries filled in is
\* answered 200 with its parts under generated names
C18_AnsweredDespiteMalformedJson ==
    /\ req.route = "uploadImages" /\ Answered /\ resp.status = 200
    /\ F_newSources \in DOMAIN req.Json /\ ~req.Json[F_newSources].parses
    /\ Len(req.Json[F_newSources].entries) > 0
    /\ nFiles(req) >= 1 /\ NumCalls("put", 1) = 1
    /\ resp.body.inserted[1].img_path # req.Json[F_newSources].entries[1].path

\* the entries of the imgPathsToDelete field as sent, trimmed
SentDeletes(r) == TrimAll(Split(TrimSpace(FormValue(r, F_imgPathsToDelete)), ","))

\* the fully qualified key of a path that is already clean: the namespace, then
\* the folder when the path has no separator, then the path
QualifiedKey(r, p) ==
    <<"k", "z", "e", "n", "/">>
    \o (IF Contains(p, "/") THEN p ELSE folder(r) \o <<"/">> \o p)

\* C19: every delete call is for a non-empty entry of the deletion list, at most
\* one per entry, and its key is the namespace prefix followed by the path when
\* the path contains a separator, and by folder/path when it does not; empty
\* entries have no delete task.
C19_DeleteKeyNormalized ==
    (req.route = "uploadImages" /\ Admitted) =>
        /\ Len(dtask) =
              Cardinality({j \in 1..Len(SentDeletes(req)) : SentDeletes(req)[j] # <<>>})
        /\ \A c \in BagToSet(calls) :
              c.op = "remove" =>
                  /\ c.idx \in 1..Len(dtask)
                  /\ CopiesIn(c, calls) = 1
                  /\ NumCalls("remove", c.idx) = 1
                  /\ \E j \in 1..Len(SentDeletes(req)) :
                        /\ SentDeletes(req)[j] # <<>>
                        /\ Cardinality({k \in 1..j : SentDeletes(req)[k] # <<>>}) = c.idx
                        /\ Clean(SentDeletes(req)[j]) = SentDeletes(req)[j] =>
                              c.key = QualifiedKey(req, SentDeletes(req)[j])

\* C19 witness: a list with an empty entry between a bare filename and a path
\* with a separator; both deletes were issued, each under its own key
C19_BareAndQualifiedDeleted ==
    /\ req.route = "uploadImages" /\ Answered
    /\ Len(SentDeletes(req)) = 3 /\ SentDeletes(req)[2] = <<>>
    /\ ~Contains(SentDeletes(req)[1], "/") /\ Contains(SentDeletes(req)[3], "/")
    /\ \E c, d \in BagToSet(calls) :
          /\ c.op = "remove" /\ c.idx = 1
          /\ c.key = QualifiedKey(req, SentDeletes(req)[1])
          /\ d.op = "remove" /\ d.idx = 2
          /\ d.key = QualifiedKey(req, SentDeletes(req)[3])

\* C20: a delete the store reports as absent never makes the response an error
\* and its path is not in the deleted list.
C20_AbsentDeleteIsNoOp ==
    (req.route = "uploadImages" /\ Answered /\ Admitted) =>
        \A c \in BagToSet(calls) :
            (c.op = "remove" /\ c.err = ErrNotFound) =>
                /\ NothingFailed => resp.status = 200
                /\ resp.status = 200 =>
                      \A k \in 1..Len(resp.body.deleted) :
                          resp.body.deleted[k] # imgPathsToDelete(req)[c.idx]

\* what the three-tier fallback yields for a payload: the JPEG of the scaled
\* image, else the JPEG of the decoded image alone, else the payload itself
TierOf(d) ==
    IF ~d.raster THEN "raw"
    ELSE IF resizeToFit(Decode(d), MaxW, MaxH).enc THEN "resized"
    ELSE IF Decode(d).enc THEN "unresized"
    ELSE "raw"

ThreeTier(d) ==
    IF TierOf(d) = "resized"
    THEN [bytes |-> [jpeg |-> <<Jpeg(resizeToFit(Decode(d), MaxW, MaxH))>>],
          ct |-> "image/jpeg"]
    ELSE IF TierOf(d) = "unresized"
    THEN [bytes |-> [jpeg |-> <<Jpeg(Decode(d))>>], ct |-> "image/jpeg"]
    ELSE [bytes |-> d, ct |-> "application/octet-stream"]

\* the put of part n returned nil and no delete of the request took its key
KeptPut(n) ==
    /\ \E c \in BagToSet(calls) : c.op = "put" /\ c.idx = n /\ c.err = Nil
    /\ \A c \in BagToSet(calls) :
          c.op = "remove" => c.key # UploadKey(req, results[n].imgPath)

\* C21: for every raster part whose task has run, the pipeline yields the JPEG
\* of the scaled image when that encodes, else the JPEG of the decoded image
\* alone and nothing else when that encodes, else the original bytes as
\* application/octet-stream, also when the payload does not decode; the item
\* fails only by an open, read or put error, and when its put succeeds that
\* object is what the store holds.
C21_ThreeTierFallback ==
    (req.route = "uploadImages" /\ Admitted) =>
        \A n \in 1..nFiles(req) :
            (task[n] = "done" /\ ~isSvg(fileHeaders(req)[n])) =>
                /\ processRasterImage(fileHeaders(req)[n].data)
                      = ThreeTier(fileHeaders(req)[n].data)
                /\ results[n].err # Nil =>
                      \/ results[n].err \in {ErrOpen, ErrRead}
                      \/ \E c \in BagToSet(calls) :
                            c.op = "put" /\ c.idx = n /\ c.err = results[n].err
                /\ (nFiles(req) = 1 /\ KeptPut(n)) =>
                      /\ results[n].err = Nil
                      /\ store[UploadKey(req, results[n].imgPath)]
                            = [data |-> ThreeTier(fileHeaders(req)[n].data).bytes,
                               ct |-> ThreeTier(fileHeaders(req)[n].data).ct]

\* C21 witness: the scaled copy of an image beyond 1920x1080 did not encode, the
\* image itself did, and the request was answered 200 with the JPEG stored
C21_UnresizedJpegStored ==
    /\ req.route = "uploadImages" /\ Answered /\ resp.status = 200
    /\ nFiles(req) = 1 /\ KeptPut(1)
    /\ TierOf(fileHeaders(req)[1].data) = "unresized"
    /\ store[UploadKey(req, results[1].imgPath)].ct = "image/jpeg"

\* C22: a part whose filename extension is .svg in any case, or whose declared
\* content type is image/svg+xml, is put with the bytes it was sent with and the
\* content type image/svg+xml, also when those bytes hold a raster image, and a
\* generated name for it ends in .svg.
C22_SvgPassesThrough ==
    (req.route = "uploadImages" /\ Admitted) =>
        \A n \in 1..nFiles(req) :
            (/\ task[n] = "done"
             /\ \/ Ext(ToLower(fileHeaders(req)[n].Filename)) = <<".", "s", "v", "g">>
                \/ fileHeaders(req)[n].ctype = "image/svg+xml") =>
                /\ PartObject(fileHeaders(req)[n])
                      = [bytes |-> fileHeaders(req)[n].data, ct |-> "image/svg+xml"]
                /\ (results[n].err = Nil /\ ResolvedImgPath(req, n) = <<>>) =>
                      Ext(results[n].imgPath) = <<".", "s", "v", "g">>
                /\ (nFiles(req) = 1 /\ KeptPut(n)) =>
                      store[UploadKey(req, results[n].imgPath)]
                         = [data |-> fileHeaders(req)[n].data, ct |-> "image/svg+xml"]

\* C22 witness: a part named B.SVG with no declared content type that holds a
\* 4000x3000 raster image was stored as sent, as image/svg+xml
C22_UpperCaseSvgStoredAsSent ==
    /\ req.route = "uploadImages" /\ Answered /\ resp.status = 200
    /\ nFiles(req) = 1 /\ KeptPut(1)
    /\ fileHeaders(req)[1].Filename = <<"B", ".", "S", "V", "G">>
    /\ fileHeaders(req)[1].ctype = ""
    /\ fileHeaders(req)[1].data.raster
    /\ store[UploadKey(req, results[1].imgPath)].data = fileHeaders(req)[1].data
    /\ store[UploadKey(req, results[1].imgPath)].ct = "image/svg+xml"

\* W or H times min(maxW/W, maxH/H), the fraction dropped, at least 1
ScaledSide(side, w, h, maxW, maxH) ==
    LET exact == IF maxW * h <= maxH * w THEN (side * maxW) \div w
                 ELSE (side * maxH) \div h
    IN IF exact < 1 THEN 1 ELSE exact

\* C23: for every decoded image of width W >= 1 and height H >= 1 that a task
\* has processed, resizeToFit(img, 1920, 1080) is the image itself when W <= 1920
\* and H <= 1080, and otherwise has 1 <= W' <= 1920, 1 <= H' <= 1080, W' <= W,
\* H' <= H, with W' and H' equal to W and H times min(1920/W, 1080/H), the
\* fraction dropped.
C23_ResizeScalesByMinFactor ==
    (req.route = "uploadImages" /\ Admitted) =>
        \A n \in 1..nFiles(req) :
            (task[n] = "done" /\ fileHeaders(req)[n].data.raster) =>
                LET img == Decode(fileHeaders(req)[n].data)
                    out == resizeToFit(img, 1920, 1080)
                IN IF img.w <= 1920 /\ img.h <= 1080 THEN out = img
                   ELSE /\ 1 <= out.w /\ out.w <= 1920 /\ out.w <= img.w
                        /\ 1 <= out.h /\ out.h <= 1080 /\ out.h <= img.h
                        /\ out.w = ScaledSide(img.w, img.w, img.h, 1920, 1080)
                        /\ out.h = ScaledSide(img.h, img.w, img.h, 1920, 1080)

\* the stat calls of the request
StatCalls == {c \in BagToSet(calls) : c.op = "stat"}

\* the response reports a failed stat: an error status and no fetch was made
StatFailureSurfaced ==
    \/ pc = "StatFailed"
    /\ Answered
       /\ resp.body \in {"object not found", "failed to get object info"}
       /\ \A c \in BagToSet(calls) : c.op # "get"

C25_BatchFetchNeverRetries ==
    (req.route = "batch" /\ req.method = "GET" /\ Admitted) =>
        \A j \in 1..Len(task) :
            /\ NumCalls("get", j) <= 1 /\ NumCalls("stat", j) <= 1
            /\ task[j] # "done" => NumCalls("get", j) = 0 /\ NumCalls("stat", j) = 0
            /\ \A c \in BagToSet(calls) :
                  c.idx = j =>
                      /\ c.key = KeysOf(req)[j]
                      /\ c.err # Nil => results[j].err = c.err
            /\ (/\ task[j] = "done"
                /\ \A c \in BagToSet(calls) : c.idx = j => c.err = Nil) =>
                  /\ results[j].err = Nil
                  /\ results[j].key = KeysOf(req)[j]
                  /\ results[j].data = store[KeysOf(req)[j]].data

\* C25 witness: of two items one was refused at its stat with "Access Denied"
\* after one fetch and one stat, the other was fetched, and the response holds
\* the one part
C25_OneRefusedOneFetched ==
    /\ req.route = "batch" /\ req.method = "GET" /\ Answered
    /\ Len(task) = 2
    /\ \E j, k \in 1..2 :
          /\ j # k
          /\ NumCalls("get", j) = 1 /\ NumCalls("stat", j) = 1
          /\ results[j].err = ErrDenied
          /\ results[k].err = Nil /\ task[k] = "done"
    /\ Len(resp.body) = 1

\* the store calls of item j
CallsOf(j) == {c \in BagToSet(calls) : c.idx = j}

\* C26: in a batch fetch or delete, whose tasks share one deadline, an item
\* holds the timeout error exactly when one of its own calls met the expired
\* deadline; an item whose calls all returned before it keeps its successful
\* result; and the response is the normal aggregate with status 200, holding
\* the part or the entry of every such item.
C26_DeadlineFailsOwnItemOnly ==
    (req.route = "batch" /\ req.method \in {"GET", "DELETE"} /\ Admitted) =>
        /\ \A j \in 1..Len(task) :
              /\ ResultErr(j) = ErrDeadline
                    <=> \E c \in CallsOf(j) : c.err = ErrDeadline
              /\ (\E c \in CallsOf(j) : c.err = ErrDeadline) => expired
              /\ (task[j] = "done" /\ \A c \in CallsOf(j) : c.err = Nil) =>
                    /\ ResultErr(j) \in {Nil, ""}
                    /\ Answered =>
                          IF req.method = "GET"
                          THEN \E k \in 1..Len(resp.body) :
                                  /\ resp.body[k].name = KeysOf(req)[j]
                                  /\ resp.body[k].data = results[j].data
                          ELSE resp.body[j] = [Key |-> KeysOf(req)[j], OK |-> TRUE, Err |-> ""]
        /\ Answered => resp.status = 200

\* C26 witness: of two items fetched, one completed before the deadline and the
\* other met it; the response has status 200 and holds the part of the first
C26_OneTimedOutOneKept ==
    /\ req.route = "batch" /\ req.method = "GET" /\ Answered /\ expired
    /\ resp.status = 200
    /\ Len(task) = 2
    /\ \E j, k \in 1..2 :
          /\ results[j].err = ErrDeadline
          /\ results[k].err = Nil /\ task[k] = "done"
          /\ \E n \in 1..Len(resp.body) : resp.body[n].name = KeysOf(req)[k]

\* C27: in batch fetch and in upload-images the pre-sized arrays are all the
\* tasks share: a slot holds its zero value until the task of its own index has
\* finished, the response is assembled only when no task is running, and what
\* a finished task left in its slot comes from its own arguments and its own
\* store call, never from a variable another goroutine writes.
C27_SlotsAreAllTasksShare ==
    (/\ Admitted
     /\ \/ req.route = "uploadImages"
        \/ req.route = "batch" /\ req.method = "GET") =>
        /\ \A j \in 1..Len(results) :
              task[j] # "done" =>
                  results[j] = IF req.route = "batch" THEN ZeroGetResult ELSE ZeroUpload
        /\ nResp > 0 => \A j \in 1..Len(task) : task[j] # "running"
        /\ req.route = "uploadImages" =>
              /\ nResp > 0 => \A j \in 1..Len(dtask) : dtask[j] # "running"
              /\ \A j \in 1..Len(dtask) :
                    /\ dtask[j] # "done" =>
                          deletedPaths[j] = <<>> /\ deleteErrors[j] = Nil
                    /\ dtask[j] = "done" =>
                          deletedPaths[j] \in {<<>>, imgPathsToDelete(req)[j]}

\* the indices of the paths whose delete call returned nil
DeletedAtStore ==
    {j \in 1..nDeletes(req) :
        \E c \in BagToSet(calls) : c.op = "remove" /\ c.idx = j /\ c.err = Nil}

\* entry j of inserted is the id and the destination resolved for file j, the
\* path the file was put under
InsertedAsResolved(j) ==
    /\ resp.body.inserted[j].id = ResolvedId(req, j)
    /\ ResolvedImgPath(req, j) # <<>> =>
          resp.body.inserted[j].img_path = ResolvedImgPath(req, j)
    /\ \E c \in BagToSet(calls) :
          /\ c.op = "put" /\ c.idx = j /\ c.err = Nil
          /\ c.key = UploadKey(req, resp.body.inserted[j].img_path)

\* C28: a 200 response of upload-images holds in inserted one {id, img_path}
\* entry per uploaded file, in submission order, with the id and the
\* destination resolved for that file, and in deleted the client-supplied paths
\* whose delete call returned nil, in request order, and no other.
C28_SuccessResponseLists ==
    (req.route = "uploadImages" /\ Answered /\ Admitted /\ resp.status = 200) =>
        /\ Len(resp.body.inserted) = nFiles(req)
        /\ \A j \in 1..nFiles(req) : InsertedAsResolved(j)
        /\ Len(resp.body.deleted) = Cardinality(DeletedAtStore)
        /\ \A k \in 1..Len(resp.body.deleted) :
              \E j \in DeletedAtStore :
                  /\ Cardinality({x \in DeletedAtStore : x <= j}) = k
                  /\ resp.body.deleted[k] = imgPathsToDelete(req)[j]

\* the request carries the configured key in X-API-Key or as a bearer token
CarriesKey(r) ==
    \/ r.xApiKey = r.cfgAPIKey
    \/ r.authorization = Bearer \o r.cfgAPIKey

\* the request is with a handler of a storage route
AtStorageHandler ==
    pc \in {"objectsHandler", "StatObject", "StatFailed", "GetObject",
            "debugList", "rangeCh"}

\* C29: with API_KEY set, a request for a path other than the health paths that
\* does not carry the key never reaches a storage handler and causes no store
\* call, and unless it is a preflight, which corsMiddleware answers, its
\* response is 401.
C29_NoStorageWithoutKey ==
    (/\ req.route = "server" /\ req.cfgAPIKey # <<>>
     /\ req.path \notin {PathHealth, PathHealthSlash}
     /\ ~CarriesKey(req)) =>
        /\ ~AtStorageHandler
        /\ calls = EmptyBag
        /\ (Answered /\ req.method # "OPTIONS") => resp.status = 401

\* C30: with API_KEY set, a request that carries the key in X-API-Key or as a
\* bearer token is never answered 401, whatever its other header holds.
C30_CorrectKeyAdmitted ==
    (req.route = "server" /\ req.cfgAPIKey # <<>> /\ CarriesKey(req)) =>
        resp.status # 401

\* the request is for one of the two routes of debugList
ForDebugList == req.route = "server" /\ MuxHandler(req.path) = "debugList"

ListCalls == {c \in BagToSet(calls) : c.op = "list"}

\* C31: a request that reaches debugList with a method other than GET is
\* answered 405 in that step, and no list call is ever made for it.
C31_NonGetRefusedUnlisted ==
    [][(ForDebugList /\ req.method # "GET") =>
          /\ ListCalls = {} /\ ListCalls' = {}
          /\ pc = "debugList" => (pc' = "done" /\ resp'.status = 405)]_vars

C31_PostAnswered405 ==
    /\ ForDebugList /\ req.method = "POST"
    /\ Answered /\ resp.status = 405
    /\ resp.body = "method not allowed"

\* the keys the channel of the list call delivered, in its order
DeliveredKeys ==
    LET n == IF ListError(results.ch) = Nil THEN Len(results.ch)
             ELSE Len(results.ch) - 1
    IN  [j \in 1..n |-> results.ch[j].Key]

\* C32: a GET that debugList answered has status 200, the bucket the route is
\* configured with and the keys of the bucket that start with the prefix (all
\* keys for an empty prefix), each once and in the order the store delivered
\* them; when the store delivered an error entry the status is 500 and the
\* body is the error's text, with no key list.
C32_ListedAsDelivered ==
    (ForDebugList /\ req.method = "GET" /\ Answered) =>
        IF ListError(results.ch) = Nil
        THEN /\ resp.status = 200
             /\ resp.body.bucket =
                  (IF req.path = PatternDebugList THEN CfgBucket ELSE KZEN_STORAGE)
             /\ resp.body.objects.items = DeliveredKeys
             /\ Len(resp.body.objects.items) =
                  Cardinality({k \in DOMAIN store : HasPrefix(k, req.prefix)})
             /\ {resp.body.objects.items[j] : j \in 1..Len(resp.body.objects.items)} =
                  {k \in DOMAIN store : HasPrefix(k, req.prefix)}
        ELSE /\ resp.status = 500
             /\ resp.body = ListError(results.ch)

C32_TwoKeysListedInStoreOrder ==
    /\ ForDebugList /\ req.method = "GET" /\ req.prefix = <<>>
    /\ Answered /\ resp.status = 200
    /\ resp.body.bucket = KZEN_STORAGE
    /\ resp.body.objects.items = <<KeyOld, KeyA>>

\* C33: in upload-images, whatever the interleaving of the delete tasks with
\* the loop that launches them, a task whose delete succeeded has recorded in
\* its slot the path of its own index, and the deleted list of the response
\* holds exactly those paths in request order.
C33_TaskRecordsItsOwnPath ==
    (req.route = "uploadImages" /\ Admitted) =>
        /\ \A j \in DeletedAtStore :
              dtask[j] = "done" => deletedPaths[j] = imgPathsToDelete(req)[j]
        /\ (Answered /\ resp.status = 200) =>
              \E f \in [1..Len(resp.body.deleted) -> DeletedAtStore] :
                  /\ \A a, b \in DOMAIN f : a < b => f[a] < f[b]
                  /\ \A a \in DOMAIN f :
                        resp.body.deleted[a] = imgPathsToDelete(req)[f[a]]

\* a later request of the same user and folder whose imgPathsToDelete field is
\* the img_path p an earlier response returned
LaterDeleteOf(p) == [req EXCEPT !.Value = (F_imgPathsToDelete :> <<p>>) @@ req.Value]

\* the keys the delete loop of request r computes, in order
DeleteKeysOf(r) ==
    [n \in 1..Len(imgPathsToDelete(r)) |-> DeleteKey(r, imgPathsToDelete(r)[n])]

\* C34: when upload-images has put part j under key K and reports img_path P
\* for it, a later request with the same folder that lists P in
\* imgPathsToDelete computes exactly K as its one delete key, for every P,
\* those holding a "/" included.
C34_DeleteKeyIsUploadKey ==
    (req.route = "uploadImages" /\ Admitted) =>
        \A j \in 1..Len(results) :
            (task[j] = "done" /\ results[j].err = Nil) =>
                \A c \in BagToSet(calls) :
                    (c.op = "put" /\ c.idx = j /\ c.err = Nil) =>
                        DeleteKeysOf(LaterDeleteOf(results[j].imgPath)) = <<c.key>>

\* the pattern under which Run registered the single-object route of a path
RoutePattern(path) ==
    IF HasPrefix(path, PatternObjects) THEN PatternObjects ELSE PatternKzenObjects

\* the request is for a single-object route, with a method the route serves
ForObjects(r) ==
    /\ r.route = "server" /\ MuxHandler(r.path) = "objectsHandler"
    /\ r.method \in {"GET", "HEAD", "POST", "PUT", "DELETE"}

\* C35: on both single-object routes every store call is made for the request
\* path less the route's own prefix, and a request for the bare prefix that
\* the middleware admitted is answered 400 without a store call.
C35_KeyIsPathLessRoutePrefix ==
    ForObjects(req) =>
        /\ \A c \in BagToSet(calls) :
              c.key = TrimPrefix(req.path, RoutePattern(req.path))
        /\ req.path = RoutePattern(req.path) =>
              /\ calls = EmptyBag
              /\ (Answered /\ resp.status # 401) => resp.status = 400

\* the response headers hold the four CORS headers with their values
CarriesCors(h) ==
    /\ {"Access-Control-Allow-Origin", "Access-Control-Allow-Methods",
        "Access-Control-Allow-Headers", "Access-Control-Max-Age"} \subseteq DOMAIN h
    /\ h["Access-Control-Allow-Origin"] = "*"
    /\ h["Access-Control-Allow-Methods"] = "GET, POST, PUT, DELETE, OPTIONS"
    /\ h["Access-Control-Allow-Headers"] =
          "Content-Type, Accept, X-API-Key, Authorization, X-Requested-With"
    /\ h["Access-Control-Max-Age"] = "86400"

\* C36: every response of the chain carries the CORS headers, the 401 of
\* apiKeyMiddleware and the reply to a preflight included; an OPTIONS request
\* is answered 200 whatever key it carries, reaches no handler behind
\* corsMiddleware and causes no store call.
C36_EveryResponseCarriesCors ==
    (req.route = "server") =>
        /\ Answered => CarriesCors(resp.headers)
        /\ req.method = "OPTIONS" =>
              /\ pc \in {"apiKeyMiddleware", "corsMiddleware", "done"}
              /\ calls = EmptyBag
              /\ Answered => resp.status = 200

C36_RejectionCarriesCors ==
    /\ req.route = "server" /\ req.cfgAPIKey # <<>> /\ req.method = "POST"
    /\ PresentedKey(req) # req.cfgAPIKey
    /\ Answered /\ resp.status = 401
    /\ resp.headers["Access-Control-Allow-Origin"] = "*"
    /\ resp.headers["Content-Type"] = "application/json"

\* C37: in the summary of a batch upload or a batch delete every entry is that
\* of an item for which the store was called (a put or a remove of its index),
\* an entry with ok = false holds an error message, and an entry with ok = true
\* holds none.
C37_SummaryOfAttemptedItems ==
    (/\ req.route = "batch" /\ req.method \in {"POST", "DELETE"}
     /\ Answered /\ resp.status = 200) =>
        \A n \in 1..Len(resp.body) :
            /\ \E c \in BagToSet(calls) : c.op \in {"put", "remove"} /\ c.idx = n
            /\ ~resp.body[n].OK => resp.body[n].Err # ""
            /\ resp.body[n].OK => resp.body[n].Err = ""

\* the stat call of the last attempt made
FinalStat == CHOOSE c \in StatCalls : \A d \in StatCalls : d.idx <= c.idx

\* the stat loop of a single-object GET has ended with an error
StatUltimatelyFailed ==
    /\ req.route = "server" /\ StatCalls # {}
    /\ pc \in {"StatFailed", "done"}
    /\ FinalStat.err # Nil

\* C38: when the stat of a single-object GET has ultimately failed, no fetch
\* call is made and the body written is an error text, never the object; the
\* status is 404 when the final stat error says the key does not exist and 500
\* for every other error, three refusals with "Access Denied" included.
C38_StatFailureStopsTheGet ==
    StatUltimatelyFailed =>
        /\ \A c \in BagToSet(calls) : c.op # "get"
        /\ Answered =>
              /\ resp.status = (IF FinalStat.err = ErrNotFound THEN 404 ELSE 500)
              /\ resp.body = (IF FinalStat.err = ErrNotFound
                              THEN "object not found"
                              ELSE "failed to get object info")
              /\ resp.headers["X-MinIO-Error"] = FinalStat.err

C38_ThreeRefusalsAnswered500 ==
    /\ StatUltimatelyFailed /\ Answered
    /\ Cardinality({c \in StatCalls : c.err = ErrDenied}) = 3
    /\ resp.status = 500
    /\ Exists(objectKey(req))

\* the form of the request holds no binary part under any field
NoBinaryPart(r) == \A f \in DOMAIN r.File : r.File[f] = <<>>

\* C39: an upload-images request with a userId and a folder, no binary part
\* and no path to delete launches no task and makes no store call, and its
\* answer is 200 with empty inserted and deleted lists.
C39_NothingToDoAnswered200 ==
    (/\ req.route = "uploadImages" /\ req.method = "POST" /\ req.parseOK
     /\ userId(req) # <<>> /\ folder(req) # <<>>
     /\ NoBinaryPart(req) /\ imgPathsToDelete(req) = <<>>) =>
        /\ calls = EmptyBag
        /\ \A j \in 1..Len(task) : task[j] = "idle"
        /\ \A j \in 1..Len(dtask) : dtask[j] = "idle"
        /\ wg = 0 /\ uuid = 0
        /\ Answered =>
              /\ resp.status = 200
              /\ resp.body.inserted = <<>> /\ resp.body.deleted = <<>>

C39_EmptyRequestAnswered ==
    /\ req.route = "uploadImages" /\ req.method = "POST" /\ req.parseOK
    /\ userId(req) # <<>> /\ folder(req) # <<>>
    /\ NoBinaryPart(req) /\ imgPathsToDelete(req) = <<>>
    /\ Answered /\ resp.status = 200 /\ nResp = 1
    /\ resp.body.inserted = <<>> /\ resp.body.deleted = <<>>

\* C40: a batch request (fetch, upload, delete, upload-images) that has passed
\* validation is eventually answered, whatever its tasks met and whether or
\* not the deadline passed, and no request is ever answered twice; the remove
\* call of a running delete task always has an outcome to return.
C40_AdmittedIsAnsweredOnce ==
    /\ (Admitted ~> (Answered /\ nResp = 1))
    /\ [](nResp <= 1)
    /\ [](req.route = "uploadImages" =>
            \A idx \in DOMAIN dtask :
                dtask[idx] = "running" =>
                    RemoveOutcomes(DeleteKey(req, imgPathsToDelete(req)[idx])) # {})

\* C40 witness: an upload-images request was answered once, after the deadline
\* had passed and both a put and a remove had failed on it
C40_AnsweredAfterDeadline ==
    /\ req.route = "uploadImages" /\ Admitted /\ Answered /\ nResp = 1
    /\ expired /\ wg = 0
    /\ \E c \in BagToSet(calls) : c.op = "put" /\ c.err = ErrDeadline
    /\ \E c \in BagToSet(calls) : c.op = "remove" /\ c.err = ErrDeadline

====
